---- MODULE Spec2Model ----
(***************************************************************************)
(* Authentication and session-integrity subsystem of the mind-map back     *)
(* end: registration, login with lockout, JWT session gate, two-factor     *)
(* enrolment, over the dual MongoDB / in-memory user store.                *)
(*                                                                         *)
(* Time is counted in units of 30 minutes (TimeUnit): the idle window and  *)
(* the default token lifetime are 1 unit, the lock window is 4 units.      *)
(* Every handler is a pure operator over the current state that returns    *)
(* the response and the new stores; the actions apply the handlers.        *)
(***************************************************************************)
EXTENDS Integers, Sequences, FiniteSets, TLC

VARIABLES
    mongoConnected,   \* mongoose.connection.readyState === 1
    dbUsers,          \* the User collection, in insertion order
    inMemoryUsers,    \* authController.js: let inMemoryUsers = []
    nextUserId,       \* authController.js: let nextUserId = 1
    now,              \* Date.now(), in units of 30 minutes
    jwtExpiresIn,     \* JWT_EXPIRES_IN, in units of 30 minutes
    held,             \* per client: the token the client last received
    issuedTo,         \* per client: data.user.username of the response that token came in
    session,          \* per client: req.session.tempTwoFactorSecret
    track,            \* history, per database user: consecutive failed logins
    last,             \* the response of the request just handled (Idle: none)
    strength,         \* the last /check-password-strength request and its answer
    inflight,         \* per request slot: a handler suspended at an await
    dbMaps,           \* the MindMap collection, in insertion order
    inMemoryMaps,     \* mapController.js: let inMemoryMaps = []
    nextId,           \* mapController.js: let nextId = 1
    nextObjectId      \* the driver's ObjectId counter, for new MindMap documents

vars == <<mongoConnected, dbUsers, inMemoryUsers, nextUserId, now,
          jwtExpiresIn, held, issuedTo, session, track, last, strength,
          inflight, dbMaps, inMemoryMaps, nextId, nextObjectId>>

----------------------------------------------------------------------------
(* Bounds of the model *)

MaxTime == 6
MaxAttempts == 6
MaxStem == 4
MaxFill == 5
MaxUsers == 3
MaxMaps == 1

(* Program constants, in units of 30 minutes where they are durations *)

LockDuration == 4
LockThreshold == 5
IdleWindow == 1
DefaultJwtExpiresIn == 1
TotpWindow == 2
MinPasswordLength == 8

(* null / undefined of a Date or Number field *)
Null == -1

----------------------------------------------------------------------------
(* Request inputs *)

Clients == {"c1", "c2"}
Usernames == {"alice", "bob"}
Emails == {"alice@x.com", "bob@x.com"}
Secrets == {"K1", "K2"}
NoSecret == "none"

(* Passwords are sequences of characters. *)
PwStrong == <<"S", "t", "r", "0", "n", "g", "!", "P">>
PwOther == <<"O", "t", "h", "3", "r", "?", "p", "w">>
PwHash == <<"H", "a", "s", "h", "1", "!", "#", "x">>
PwShort == <<"S", "h", "0", "!">>
PwEmpty == << >>
Passwords == {PwStrong, PwOther, PwHash, PwShort, PwEmpty}

LowerChars == {"a", "g", "h", "n", "p", "r", "s", "t", "w", "x"}
UpperChars == {"H", "O", "P", "S"}
DigitChars == {"0", "1", "3"}
SpecialChars == {"@", "$", "!", "%", "*", "?", "&"}
AllowedChars == LowerChars \cup UpperChars \cup DigitChars \cup SpecialChars

HasChar(password, class) == \E i \in DOMAIN password : password[i] \in class

(* Faulty variant: four criteria are enough to be called strong *)
validatePasswordStrength_strongAtFour(password) ==
    LET criteria == [minLength |-> Len(password) >= MinPasswordLength,
                     hasLowercase |-> HasChar(password, LowerChars),
                     hasUppercase |-> HasChar(password, UpperChars),
                     hasNumber |-> HasChar(password, DigitChars),
                     hasSpecialChar |-> HasChar(password, SpecialChars)]
        score == Cardinality({k \in DOMAIN criteria : criteria[k]})
    IN [isValid |-> \A k \in DOMAIN criteria : criteria[k],
        score |-> score,
        criteria |-> criteria,
        strength |-> IF score <= 2 THEN "weak"
                     ELSE IF score <= 3 THEN "medium" ELSE "strong"]

(* User.validatePasswordStrength *)
validatePasswordStrength(password) ==
    LET criteria == [minLength |-> Len(password) >= MinPasswordLength,
                     hasLowercase |-> HasChar(password, LowerChars),
                     hasUppercase |-> HasChar(password, UpperChars),
                     hasNumber |-> HasChar(password, DigitChars),
                     hasSpecialChar |-> HasChar(password, SpecialChars)]
        score == Cardinality({k \in DOMAIN criteria : criteria[k]})
    IN [isValid |-> \A k \in DOMAIN criteria : criteria[k],
        score |-> score,
        criteria |-> criteria,
        strength |-> IF score <= 2 THEN "weak"
                     ELSE IF score <= 4 THEN "medium" ELSE "strong"]

(* checkPasswordStrength: the request's password and the answer *)
checkPasswordStrength(password) ==
    IF Len(password) = 0
    THEN [password |-> password, status |-> 400,
          data |-> [isValid |-> FALSE, score |-> 0, strength |-> "none"]]
    ELSE LET validation == validatePasswordStrength(password)
         IN [password |-> password, status |-> 200,
             data |-> [isValid |-> validation.isValid, score |-> validation.score,
                       strength |-> validation.strength]]

(* Faulty variant: the route checks the length only *)
registerValidationPassword_lengthOnly(password) ==
    Len(password) >= MinPasswordLength

(* registerValidation, body('password'): isLength({min: 8}) and the regex     *)
(* /^(?=.*[a-z])(?=.*[A-Z])(?=.*\d)(?=.*[@$!%*?&])[A-Za-z\d@$!%*?&]/, which   *)
(* constrains the first character only.                                       *)
registerValidationPassword(password) ==
    /\ Len(password) >= MinPasswordLength
    /\ HasChar(password, LowerChars)
    /\ HasChar(password, UpperChars)
    /\ HasChar(password, DigitChars)
    /\ HasChar(password, SpecialChars)
    /\ password[1] \in AllowedChars

(* userSchema.pre('save'): the regex                                          *)
(* /^(?=.*[a-z])(?=.*[A-Z])(?=.*\d)(?=.*[@$!%*?&])[A-Za-z\d@$!%*?&]{8,}$/     *)
preSavePasswordOk(password) ==
    /\ HasChar(password, LowerChars)
    /\ HasChar(password, UpperChars)
    /\ HasChar(password, DigitChars)
    /\ HasChar(password, SpecialChars)
    /\ Len(password) >= MinPasswordLength
    /\ \A i \in DOMAIN password : password[i] \in AllowedChars

(* bcrypt.hash / bcrypt.compare: the hash is not the password, and a          *)
(* candidate matches exactly the hash made from it.                           *)
NoHash == [bcrypt |-> << >>, cost |-> 0]
hashPassword(password) == [bcrypt |-> password, cost |-> 12]
comparePassword(password, hashedPassword) == hashedPassword = hashPassword(password)

----------------------------------------------------------------------------
(* Identifiers: a database ObjectId or an in-memory counter value *)

NoId == [kind |-> "none", n |-> 0]
NoName == ""
ObjectId(n) == [kind |-> "oid", n |-> n]
NumId(n) == [kind |-> "num", n |-> n]

(* A user record. In-memory records carry no lockUntil and no                *)
(* twoFactorSecret: the fields read as undefined (Null, NoSecret).           *)
NoUser == [_id |-> NoId, username |-> "", email |-> "", password |-> NoHash,
           twoFactorSecret |-> NoSecret, twoFactorEnabled |-> FALSE,
           lastActivity |-> Null, loginAttempts |-> 0, lockUntil |-> Null]

(* new User({...}) with the schema's defaults *)
newUserDocument(id, username, email, hashed) ==
    [_id |-> id, username |-> username, email |-> email, password |-> hashed,
     twoFactorSecret |-> NoSecret, twoFactorEnabled |-> FALSE,
     lastActivity |-> now, loginAttempts |-> 0, lockUntil |-> Null]

(* createUserObject *)
createUserObject(username, email, hashed) ==
    [_id |-> NumId(nextUserId), username |-> username, email |-> email,
     password |-> hashed, twoFactorSecret |-> NoSecret,
     twoFactorEnabled |-> FALSE, lastActivity |-> now, loginAttempts |-> 0,
     lockUntil |-> Null]

(* Array.prototype.find / Model.findOne: the first record that matches;
   matching is the set of positions whose record satisfies the query *)
IndexWhere(matching) ==
    IF matching = {} THEN 0
    ELSE CHOOSE i \in matching : \A j \in matching : i <= j

(* Faulty variant: the virtual never reports a lock *)
isLocked_never(user) == FALSE

(* userSchema.virtual('isLocked') *)
isLocked(user) == user.lockUntil # Null /\ user.lockUntil > now

isMongoConnected == mongoConnected

----------------------------------------------------------------------------
(* Session tokens (middleware/auth.js) *)

NoToken == [userId |-> NoId, iat |-> 0, exp |-> 0, sig |-> "none"]

(* jwt.sign({ userId }, JWT_SECRET, { expiresIn: JWT_EXPIRES_IN }) *)
generateToken(userId) ==
    [userId |-> userId, iat |-> now, exp |-> now + jwtExpiresIn, sig |-> "valid"]

(* Faulty variant: the expiry is not checked *)
jwtVerify_ignoresExpiry(token) ==
    IF token.sig # "valid" THEN [error |-> "JsonWebTokenError", userId |-> NoId]
    ELSE [error |-> "", userId |-> token.userId]

(* jwt.verify(token, JWT_SECRET): the signature first, then the expiry *)
jwtVerify(token) ==
    IF token.sig # "valid" THEN [error |-> "JsonWebTokenError", userId |-> NoId]
    ELSE IF now >= token.exp THEN [error |-> "TokenExpiredError", userId |-> NoId]
    ELSE [error |-> "", userId |-> token.userId]

----------------------------------------------------------------------------
(* Time-based one-time codes. A code is the secret it was generated from   *)
(* and the number of 30-second steps between its generation and the check. *)

NoCode == [secret |-> NoSecret, drift |-> 0]
Codes == {NoCode} \cup [secret : Secrets, drift : {0, TotpWindow + 1}]

(* Faulty variant: a code of any secret is accepted *)
totpVerify_anySecret(secret, code) ==
    code.secret # NoSecret /\ code.drift <= TotpWindow

(* speakeasy.totp.verify({secret, token, window: 2}) *)
totpVerify(secret, code) ==
    code.secret # NoSecret /\ code.secret = secret /\ code.drift <= TotpWindow

----------------------------------------------------------------------------
(* Responses *)

Response(op, status, message) ==
    [op |-> op, status |-> status, message |-> message, token |-> NoToken,
     requiresTwoFactor |-> FALSE, compared |-> FALSE, user |-> NoId,
     username |-> NoName]

MsgValidationFailed == "Validation failed"
MsgLocked == "Account is temporarily locked due to too many failed login attempts"
MsgUserNotFound == "User not found"
MsgInvalidCredentials == "Invalid credentials"
MsgInvalidPassword == "Invalid password"
MsgPreSave == "Password must be at least 8 characters long and contain at least one lowercase letter, one uppercase letter, one number, and one special character"

----------------------------------------------------------------------------
(* Registration (authController.js, register; routes: registerValidation) *)

registerValidation(req) ==
    /\ req.username \in Usernames
    /\ req.email \in Emails
    /\ registerValidationPassword(req.password)

register(req) ==
    LET unchanged(resp) == [resp |-> resp, db |-> dbUsers, mem |-> inMemoryUsers,
                            nextId |-> nextUserId]
        Match(u) == u.username = req.username \/ u.email = req.email
        store == IF isMongoConnected THEN dbUsers ELSE inMemoryUsers
        i == IndexWhere({idx \in DOMAIN store : Match(store[idx])})
    IN
    IF ~registerValidation(req)
    THEN unchanged(Response("register", 400, MsgValidationFailed))
    ELSE IF i # 0
    THEN unchanged(Response("register", 409,
                   IF store[i].username = req.username
                   THEN "Username already exists" ELSE "Email already exists"))
    ELSE IF Len(req.password) < MinPasswordLength
    THEN unchanged(Response("register", 400,
                            "Password must be at least 8 characters long"))
    ELSE IF isMongoConnected
    THEN IF ~validatePasswordStrength(req.password).isValid
         THEN unchanged(Response("register", 400,
                                 "Password does not meet security requirements"))
         ELSE IF ~preSavePasswordOk(req.password)
         THEN unchanged(Response("register", 500, MsgPreSave))
         ELSE LET savedUser == newUserDocument(ObjectId(Len(dbUsers) + 1),
                                   req.username, req.email,
                                   hashPassword(req.password))
              IN [resp |-> [Response("register", 201, "User registered successfully")
                              EXCEPT !.token = generateToken(savedUser._id),
                                     !.user = savedUser._id,
                                     !.username = savedUser.username],
                  db |-> Append(dbUsers, savedUser),
                  mem |-> inMemoryUsers,
                  nextId |-> nextUserId]
    ELSE LET savedUser == createUserObject(req.username, req.email,
                                           hashPassword(req.password))
         IN [resp |-> [Response("register", 201, "User registered successfully")
                         EXCEPT !.token = generateToken(savedUser._id),
                                !.user = savedUser._id,
                                !.username = savedUser.username],
             db |-> dbUsers,
             mem |-> Append(inMemoryUsers, savedUser),
             nextId |-> nextUserId + 1]

----------------------------------------------------------------------------
(* Login (models/User.js, authController.js) *)

(* Faulty variant: the threshold compared with the count before the increment *)
incLoginAttempts_lateLock(user) ==
    IF user.lockUntil # Null /\ user.lockUntil < now
    THEN [user EXCEPT !.loginAttempts = 0, !.lockUntil = Null]
    ELSE IF user.loginAttempts >= LockThreshold /\ ~isLocked(user)
    THEN [user EXCEPT !.loginAttempts = @ + 1, !.lockUntil = now + LockDuration]
    ELSE [user EXCEPT !.loginAttempts = @ + 1]

(* userSchema.methods.incLoginAttempts: the document after the update.      *)
(* $unset leaves loginAttempts and lockUntil at the schema defaults.        *)
incLoginAttempts(user) ==
    IF user.lockUntil # Null /\ user.lockUntil < now
    THEN [user EXCEPT !.loginAttempts = 0, !.lockUntil = Null]
    ELSE IF user.loginAttempts + 1 >= LockThreshold /\ ~isLocked(user)
    THEN [user EXCEPT !.loginAttempts = @ + 1, !.lockUntil = now + LockDuration]
    ELSE [user EXCEPT !.loginAttempts = @ + 1]

(* Faulty variant: the reset leaves the lock in place *)
resetLoginAttempts_keepsLock(user) ==
    [user EXCEPT !.loginAttempts = 0, !.lastActivity = now]

(* User.js:139-148: updateOne({$unset: {loginAttempts, lockUntil},          *)
(* $set: {lastActivity}}) after a correct password                          *)
resetLoginAttempts(user) ==
    [user EXCEPT !.loginAttempts = 0, !.lockUntil = Null, !.lastActivity = now]

(* userSchema.statics.getAuthenticated: the rejection (or ""), the document *)
(* handed to the caller, the collection after the call, and whether         *)
(* comparePassword ran.                                                      *)
getAuthenticated(username, password) ==
    LET Match(u) == u.username = username \/ u.email = username
        i == IndexWhere({idx \in DOMAIN dbUsers : Match(dbUsers[idx])})
        user == dbUsers[i]
    IN
    IF i = 0
    THEN [error |-> MsgUserNotFound, user |-> NoUser, db |-> dbUsers,
          compared |-> FALSE]
    ELSE IF isLocked(user)
    THEN [error |-> MsgLocked, user |-> user,
          db |-> [dbUsers EXCEPT ![i] = incLoginAttempts(user)],
          compared |-> FALSE]
    ELSE IF comparePassword(password, user.password)
    THEN IF user.loginAttempts # 0 \/ user.lockUntil # Null
         THEN [error |-> "", user |-> user,
               db |-> [dbUsers EXCEPT ![i] = resetLoginAttempts(user)],
               compared |-> TRUE]
         ELSE [error |-> "", user |-> [user EXCEPT !.lastActivity = now],
               db |-> [dbUsers EXCEPT ![i] = [user EXCEPT !.lastActivity = now]],
               compared |-> TRUE]
    ELSE [error |-> MsgInvalidCredentials, user |-> user,
          db |-> [dbUsers EXCEPT ![i] = incLoginAttempts(user)],
          compared |-> TRUE]

(* The in-memory branch of login: lines 221-243 *)
inMemoryAuthenticate(username, password) ==
    LET Match(u) == u.username = username \/ u.email = username
        i == IndexWhere({idx \in DOMAIN inMemoryUsers : Match(inMemoryUsers[idx])})
        foundUser == inMemoryUsers[i]
    IN
    IF i = 0
    THEN [error |-> MsgUserNotFound, user |-> NoUser, mem |-> inMemoryUsers,
          compared |-> FALSE]
    ELSE IF ~comparePassword(password, foundUser.password)
    THEN [error |-> MsgInvalidPassword, user |-> foundUser, mem |-> inMemoryUsers,
          compared |-> TRUE]
    ELSE [error |-> "", user |-> [foundUser EXCEPT !.lastActivity = now],
          mem |-> [inMemoryUsers EXCEPT ![i] = [foundUser EXCEPT !.lastActivity = now]],
          compared |-> TRUE]

(* loginValidation: username and password notEmpty *)
loginValidation(req) == req.username # "" /\ Len(req.password) > 0

(* The status of login's catch block: lines 294-300 *)
loginCatchStatus(message) == 401

(* login after the authentication (lines 245-300): the catch block, the   *)
(* two-factor check and the token. auth is the outcome of the              *)
(* authentication: the rejection or the user, and the stores after it.     *)
loginRespond(req, auth) ==
    LET user == auth.user
        out(resp) == [resp |-> [resp EXCEPT !.compared = auth.compared,
                                           !.user = user._id],
                      db |-> auth.db, mem |-> auth.mem]
    IN
    IF auth.error # ""
    THEN out(Response("login", loginCatchStatus(auth.error), auth.error))
    ELSE IF user.twoFactorEnabled /\ req.twoFactorCode = NoCode
    THEN out([Response("login", 200, "Two-factor authentication required")
                EXCEPT !.requiresTwoFactor = TRUE])
    ELSE IF user.twoFactorEnabled /\ ~totpVerify(user.twoFactorSecret, req.twoFactorCode)
    THEN out(Response("login", 400, "Invalid two-factor authentication code"))
    ELSE out([Response("login", 200, "Login successful")
                EXCEPT !.token = generateToken(user._id),
                       !.username = user.username])

login(req) ==
    LET auth == IF isMongoConnected
                THEN LET a == getAuthenticated(req.username, req.password)
                     IN [error |-> a.error, user |-> a.user, db |-> a.db,
                         mem |-> inMemoryUsers, compared |-> a.compared]
                ELSE LET a == inMemoryAuthenticate(req.username, req.password)
                     IN [error |-> a.error, user |-> a.user, db |-> dbUsers,
                         mem |-> a.mem, compared |-> a.compared]
    IN
    IF ~loginValidation(req)
    THEN [resp |-> Response("login", 400, MsgValidationFailed),
          db |-> dbUsers, mem |-> inMemoryUsers]
    ELSE loginRespond(req, auth)

----------------------------------------------------------------------------
(* The handlers across their awaits. A handler that awaits the database or *)
(* bcrypt gives the event loop to the other requests; it resumes with the  *)
(* values it read before and meets the stores as they are then.            *)

(* incLoginAttempts on the loaded document this: the updateOne it sends is *)
(* computed from this and applied by the database to the stored document.  *)
incLoginAttemptsOn(this, stored) ==
    IF this.lockUntil # Null /\ this.lockUntil < now
    THEN [stored EXCEPT !.loginAttempts = 0, !.lockUntil = Null]
    ELSE IF this.loginAttempts + 1 >= LockThreshold /\ ~isLocked(this)
    THEN [stored EXCEPT !.loginAttempts = @ + 1, !.lockUntil = now + LockDuration]
    ELSE [stored EXCEPT !.loginAttempts = @ + 1]

(* getAuthenticated from the document findOne returned (lines 129-158) *)
authenticateLoaded(user, password) ==
    LET Match(u) == u._id = user._id
        i == IndexWhere({idx \in DOMAIN dbUsers : Match(dbUsers[idx])})
        stored == dbUsers[i]
    IN
    IF isLocked(user)
    THEN [error |-> MsgLocked, user |-> user,
          db |-> [dbUsers EXCEPT ![i] = incLoginAttemptsOn(user, stored)],
          compared |-> FALSE]
    ELSE IF comparePassword(password, user.password)
    THEN IF user.loginAttempts # 0 \/ user.lockUntil # Null
         THEN [error |-> "", user |-> user,
               db |-> [dbUsers EXCEPT ![i] = resetLoginAttempts(stored)],
               compared |-> TRUE]
         ELSE [error |-> "", user |-> [user EXCEPT !.lastActivity = now],
               db |-> [dbUsers EXCEPT ![i] = [stored EXCEPT !.lastActivity = now]],
               compared |-> TRUE]
    ELSE [error |-> MsgInvalidCredentials, user |-> user,
          db |-> [dbUsers EXCEPT ![i] = incLoginAttemptsOn(user, stored)],
          compared |-> TRUE]

(* The in-memory branch of login after the comparison (lines 233-242):    *)
(* foundUser is the record itself, at position i of the list               *)
inMemoryLoaded(i, password) ==
    LET foundUser == inMemoryUsers[i]
    IN IF ~comparePassword(password, foundUser.password)
       THEN [error |-> MsgInvalidPassword, user |-> foundUser,
             mem |-> inMemoryUsers, compared |-> TRUE]
       ELSE [error |-> "", user |-> [foundUser EXCEPT !.lastActivity = now],
             mem |-> [inMemoryUsers EXCEPT ![i].lastActivity = now],
             compared |-> TRUE]

(* register from the answer of User.findOne (lines 115-153): the mode is   *)
(* read again at line 134; the insert is refused by the unique indexes of  *)
(* username and email. suspended: the handler awaits hashPassword.         *)
registerAfterFindOne(req, existingUser) ==
    LET out(status, message) ==
            [resp |-> Response("register", status, message), db |-> dbUsers,
             suspended |-> FALSE]
        savedUser == newUserDocument(ObjectId(Len(dbUsers) + 1), req.username,
                                     req.email, hashPassword(req.password))
    IN
    IF existingUser # NoUser
    THEN out(409, IF existingUser.username = req.username
                  THEN "Username already exists" ELSE "Email already exists")
    ELSE IF Len(req.password) < MinPasswordLength
    THEN out(400, "Password must be at least 8 characters long")
    ELSE IF ~isMongoConnected
    THEN [out(0, "") EXCEPT !.suspended = TRUE]
    ELSE IF ~validatePasswordStrength(req.password).isValid
    THEN out(400, "Password does not meet security requirements")
    ELSE IF ~preSavePasswordOk(req.password)
    THEN out(500, MsgPreSave)
    ELSE IF \E i \in DOMAIN dbUsers : \/ dbUsers[i].username = req.username
                                       \/ dbUsers[i].email = req.email
    THEN out(500, "E11000 duplicate key error")
    ELSE [resp |-> [Response("register", 201, "User registered successfully")
                      EXCEPT !.token = generateToken(savedUser._id),
                             !.user = savedUser._id,
                             !.username = savedUser.username],
          db |-> Append(dbUsers, savedUser), suspended |-> FALSE]

(* register after hashPassword (lines 157-187) *)
registerPush(req) ==
    LET savedUser == createUserObject(req.username, req.email,
                                      hashPassword(req.password))
    IN [resp |-> [Response("register", 201, "User registered successfully")
                    EXCEPT !.token = generateToken(savedUser._id),
                           !.user = savedUser._id,
                           !.username = savedUser.username],
        mem |-> Append(inMemoryUsers, savedUser),
        nextId |-> nextUserId + 1]

(* A storage-layer failure: the connection is up when the handler asks,    *)
(* and the first query of the request rejects. In-memory mode has no       *)
(* storage layer to fail. The handlers have no retry: the catch block      *)
(* answers, and nothing was written.                                       *)
MsgStorageFailure == "connection closed"

(* register, when its first query rejects: the catch block, lines 189-195 *)
registerOnStorageFailure(req) ==
    IF ~registerValidation(req) \/ ~isMongoConnected
    THEN register(req)
    ELSE [resp |-> Response("register", 500, MsgStorageFailure),
          db |-> dbUsers, mem |-> inMemoryUsers, nextId |-> nextUserId]

(* login, when its first query rejects: the catch block, lines 294-300 *)
loginOnStorageFailure(req) ==
    IF ~loginValidation(req) \/ ~isMongoConnected
    THEN login(req)
    ELSE [resp |-> Response("login", loginCatchStatus(MsgStorageFailure),
                            MsgStorageFailure),
          db |-> dbUsers, mem |-> inMemoryUsers]

----------------------------------------------------------------------------
(* Session gate (middleware/auth.js) *)

(* What Model.findById does with a userId that is a number, not an        *)
(* ObjectId string, depends on the mongoose version: no document, or a   *)
(* CastError.                                                             *)
CastOutcomes == {"null", "throw"}

sanitized(user) == [user EXCEPT !.password = NoHash, !.twoFactorSecret = NoSecret]

(* getUserFromStorage: error (a thrown exception), the position of the    *)
(* record in its store (0: none) and the record without its secrets       *)
getUserFromStorage(userId, cast) ==
    LET Match(u) == u._id = userId
        store == IF isMongoConnected THEN dbUsers ELSE inMemoryUsers
        i == IndexWhere({idx \in DOMAIN store : Match(store[idx])})
    IN
    IF isMongoConnected /\ userId.kind # "oid" /\ cast = "throw"
    THEN [error |-> "CastError", index |-> 0, user |-> NoUser,
          isMongoConnected |-> TRUE]
    ELSE [error |-> "", index |-> i,
          user |-> IF i = 0 THEN NoUser ELSE sanitized(store[i]),
          isMongoConnected |-> isMongoConnected]

(* Faulty variant: the activity update also clears the failure counter *)
updateUserActivity_clearsCounter(users, user) ==
    LET Match(u) == u._id = user._id
        i == IndexWhere({idx \in DOMAIN users : Match(users[idx])})
    IN IF i = 0 THEN users
       ELSE [users EXCEPT ![i].lastActivity = now, ![i].loginAttempts = 0]

(* updateUserActivity *)
updateUserActivity(users, user) ==
    LET Match(u) == u._id = user._id
        i == IndexWhere({idx \in DOMAIN users : Match(users[idx])})
    IN IF i = 0 THEN users ELSE [users EXCEPT ![i].lastActivity = now]

(* Faulty variant: the gate skips the lock check *)
gateLocked_never(found) == FALSE

(* auth.js:78: the lock check, for MongoDB users only *)
gateLocked(found) == found.isMongoConnected /\ isLocked(found.user)

(* Faulty variant: the gate skips the idle check *)
sessionTimedOut_never(user) == FALSE

(* auth.js:86-87: 30 minutes of inactivity *)
sessionTimedOut(user) ==
    user.lastActivity # Null /\ user.lastActivity < now - IdleWindow

GateResult(status, message) ==
    [status |-> status, message |-> message, admitted |-> FALSE, user |-> NoUser,
     isMongoConnected |-> isMongoConnected, db |-> dbUsers, mem |-> inMemoryUsers]

authenticateToken(token, cast) ==
    LET decoded == jwtVerify(token)
        found == getUserFromStorage(decoded.userId, cast)
        user == found.user
    IN
    IF token = NoToken
    THEN GateResult(401, "Access token required")
    ELSE IF decoded.error = "TokenExpiredError"
    THEN GateResult(401, "Token expired")
    ELSE IF decoded.error = "JsonWebTokenError"
    THEN GateResult(401, "Invalid token")
    ELSE IF found.error # ""
    THEN GateResult(500, "Internal server error")
    ELSE IF found.index = 0
    THEN GateResult(401, "Invalid token - user not found")
    ELSE IF gateLocked(found)
    THEN GateResult(423, "Account is temporarily locked")
    ELSE IF sessionTimedOut(user)
    THEN GateResult(401, "Session expired due to inactivity")
    ELSE [status |-> 200, message |-> "", admitted |-> TRUE, user |-> user,
          isMongoConnected |-> found.isMongoConnected,
          db |-> IF found.isMongoConnected
                 THEN updateUserActivity(dbUsers, user) ELSE dbUsers,
          mem |-> IF found.isMongoConnected
                  THEN inMemoryUsers ELSE updateUserActivity(inMemoryUsers, user)]

(* authenticateToken from the answer of getUserFromStorage on: lines      *)
(* 68-95, run when the awaited lookup resolves, with the payload that     *)
(* jwt.verify returned before the await                                   *)
authenticateVerified(decoded, cast) ==
    LET found == getUserFromStorage(decoded.userId, cast)
        user == found.user
    IN
    IF found.error # ""
    THEN GateResult(500, "Internal server error")
    ELSE IF found.index = 0
    THEN GateResult(401, "Invalid token - user not found")
    ELSE IF gateLocked(found)
    THEN GateResult(423, "Account is temporarily locked")
    ELSE IF sessionTimedOut(user)
    THEN GateResult(401, "Session expired due to inactivity")
    ELSE [status |-> 200, message |-> "", admitted |-> TRUE, user |-> user,
          isMongoConnected |-> found.isMongoConnected,
          db |-> IF found.isMongoConnected
                 THEN updateUserActivity(dbUsers, user) ELSE dbUsers,
          mem |-> IF found.isMongoConnected
                  THEN inMemoryUsers ELSE updateUserActivity(inMemoryUsers, user)]

(* Faulty variant: optionalAuth skips the idle check *)
optionalFresh_always(user) == TRUE

(* auth.js:133-134: the session has not timed out *)
optionalFresh(user) ==
    user.lastActivity = Null \/ user.lastActivity >= now - IdleWindow

(* optionalAuth: how many times next() is called, whether a response was   *)
(* sent instead, the identity attached to the request and the stores       *)
OptionalResult(attached, user, db, mem) ==
    [nextCalls |-> 1, rejected |-> FALSE, attached |-> attached, user |-> user,
     db |-> db, mem |-> mem]

optionalAuth(token, cast) ==
    LET decoded == jwtVerify(token)
        found == getUserFromStorage(decoded.userId, cast)
        user == found.user
        anonymous == OptionalResult(FALSE, NoUser, dbUsers, inMemoryUsers)
    IN
    IF token = NoToken
    THEN anonymous
    ELSE IF decoded.error # "" \/ found.error # ""
    THEN anonymous
    ELSE IF found.index # 0 /\ (~found.isMongoConnected \/ ~isLocked(user))
    THEN IF optionalFresh(user)
         THEN OptionalResult(TRUE, user,
                  IF found.isMongoConnected
                  THEN updateUserActivity(dbUsers, user) ELSE dbUsers,
                  IF found.isMongoConnected
                  THEN inMemoryUsers ELSE updateUserActivity(inMemoryUsers, user))
         ELSE anonymous
    ELSE anonymous

(* A response of the gate, or of the handler behind it *)
GateResponse(op, gate) ==
    [Response(op, gate.status, gate.message) EXCEPT !.user = gate.user._id]

----------------------------------------------------------------------------
(* Two-factor enrolment (authController.js) *)

(* Faulty variant: beginSetup enables the secret on the record at once *)
setupTwoFactor_commitsAtOnce(gate, pending, secret) ==
    LET Match(u) == u._id = gate.user._id
        i == IndexWhere({idx \in DOMAIN gate.db : Match(gate.db[idx])})
    IN [resp |-> [GateResponse("setup", gate) EXCEPT !.status = 200],
        db |-> IF i = 0 THEN gate.db
               ELSE [gate.db EXCEPT ![i].twoFactorSecret = secret,
                                    ![i].twoFactorEnabled = TRUE],
        mem |-> gate.mem, pending |-> secret]

(* setupTwoFactor, behind authenticateToken: the pending secret goes to    *)
(* the session, the user record is not touched.                            *)
setupTwoFactor(gate, pending, secret) ==
    [resp |-> [GateResponse("setup", gate) EXCEPT !.status = 200],
     db |-> gate.db, mem |-> gate.mem, pending |-> secret]

(* User.findByIdAndUpdate(user._id, update): the collection after it, or   *)
(* an error when the model cannot run the update (no connection).          *)
findByIdAndUpdate(users, id, secret, enabled) ==
    LET Match(u) == u._id = id
        i == IndexWhere({idx \in DOMAIN users : Match(users[idx])})
    IN IF ~isMongoConnected
       THEN [error |-> "MongooseError", db |-> users]
       ELSE IF i = 0
       THEN [error |-> "", db |-> users]
       ELSE [error |-> "",
             db |-> [users EXCEPT ![i].twoFactorSecret = secret,
                                  ![i].twoFactorEnabled = enabled]]

(* verifyTwoFactor, behind authenticateToken *)
verifyTwoFactor(gate, pending, code) ==
    LET out(status, message) ==
            [resp |-> [GateResponse("verify", gate) EXCEPT !.status = status,
                                                          !.message = message],
             db |-> gate.db, mem |-> gate.mem, pending |-> pending]
        saved == findByIdAndUpdate(gate.db, gate.user._id, pending, TRUE)
    IN
    IF code = NoCode
    THEN out(400, "Verification code is required")
    ELSE IF pending = NoSecret
    THEN out(400, "No setup session found. Please start the setup process again.")
    ELSE IF ~totpVerify(pending, code)
    THEN out(400, "Invalid verification code")
    ELSE IF saved.error # ""
    THEN out(500, "Failed to verify two-factor authentication")
    ELSE [resp |-> [GateResponse("verify", gate)
                      EXCEPT !.status = 200,
                             !.message = "Two-factor authentication enabled successfully"],
          db |-> saved.db, mem |-> gate.mem, pending |-> NoSecret]

(* user.comparePassword(password) on req.user, the record the gate        *)
(* attached: a document selected without its password hands bcrypt.compare *)
(* an undefined hash, which rejects; an in-memory record is a plain object *)
(* without the method, and the call throws.                                *)
userComparePassword(gate, password) ==
    IF ~gate.isMongoConnected
    THEN [error |-> "TypeError", isValidPassword |-> FALSE]
    ELSE IF gate.user.password = NoHash
    THEN [error |-> "Illegal arguments", isValidPassword |-> FALSE]
    ELSE [error |-> "",
          isValidPassword |-> comparePassword(password, gate.user.password)]

(* disableTwoFactor, behind authenticateToken *)
disableTwoFactor(gate, password) ==
    LET out(status, message) ==
            [resp |-> [GateResponse("disable", gate) EXCEPT !.status = status,
                                                           !.message = message],
             db |-> gate.db, mem |-> gate.mem]
        checked == userComparePassword(gate, password)
        saved == findByIdAndUpdate(gate.db, gate.user._id, NoSecret, FALSE)
    IN
    IF Len(password) = 0
    THEN out(400, "Password is required to disable two-factor authentication")
    ELSE IF checked.error # ""
    THEN out(500, "Failed to disable two-factor authentication")
    ELSE IF ~checked.isValidPassword
    THEN out(400, MsgInvalidPassword)
    ELSE IF saved.error # ""
    THEN out(500, "Failed to disable two-factor authentication")
    ELSE [resp |-> [GateResponse("disable", gate)
                      EXCEPT !.status = 200,
                             !.message = "Two-factor authentication disabled successfully"],
          db |-> saved.db, mem |-> gate.mem]

----------------------------------------------------------------------------
(* Mind maps: models/MindMap.js and controllers/mapController.js          *)

NodeIds == {"n1", "n2"}
NoText == "undefined"

(* String.prototype.trim on the titles and texts of the requests *)
trim(text) == IF text = " " THEN "" ELSE text

(* toString of an identifier: the 24 hex digits of an ObjectId, the       *)
(* decimal digits of an in-memory counter value                           *)
toString(id) == [kind |-> IF id.kind = "oid" THEN "hex" ELSE "dec", n |-> id.n]

(* body.nodes, body.connections: a field that is undefined, or an array *)
Undefined == [defined |-> FALSE, value |-> << >>]
Defined(value) == [defined |-> TRUE, value |-> value]

(* createMapObject, and new MindMap(...) with the schema's defaults *)
createMapObject(id, title, user) ==
    [_id |-> id, title |-> title, user |-> user, isPublic |-> FALSE,
     nodes |-> << >>, connections |-> << >>, createdAt |-> now, updatedAt |-> now]

mapStore == IF isMongoConnected THEN dbMaps ELSE inMemoryMaps

(* MindMap.findById(id), inMemoryMaps.findIndex(m => m._id.toString() === id) *)
findMapIndex(id) ==
    LET Match(m) == toString(m._id) = id
    IN IndexWhere({idx \in DOMAIN mapStore : Match(mapStore[idx])})

(* The ownership check: only the owner, or anyone for a map with no user *)
ownedByAnother(map, userId) ==
    IF isMongoConnected
    THEN map.user # NoId /\ toString(map.user) # toString(userId)
    ELSE map.user # NoId /\ map.user # toString(userId)

MapAnswer(resp) == [resp |-> resp, db |-> dbMaps, mem |-> inMemoryMaps]

(* map.save() with the pre('save') hook, or the assignment of updatedAt   *)
MapWritten(resp, index, map) ==
    LET saved == [map EXCEPT !.updatedAt = now]
    IN IF isMongoConnected
       THEN [resp |-> resp, db |-> [dbMaps EXCEPT ![index] = saved], mem |-> inMemoryMaps]
       ELSE [resp |-> resp, db |-> dbMaps, mem |-> [inMemoryMaps EXCEPT ![index] = saved]]

Without(seq, index) == [k \in 1..(Len(seq) - 1) |-> IF k < index THEN seq[k] ELSE seq[k + 1]]

(* The head that the handlers share: the lookup of the map (a CastError   *)
(* of findById lands in the catch), 404, and where the handler has it the *)
(* ownership check. Status 0: the handler goes on.                        *)
mapLookup(op, id, userId, checksOwner, denied, failed) ==
    IF isMongoConnected /\ id.kind # "hex"
    THEN Response(op, 500, failed)
    ELSE IF findMapIndex(id) = 0
    THEN Response(op, 404, "Mind map not found")
    ELSE IF checksOwner /\ ownedByAnother(mapStore[findMapIndex(id)], userId)
    THEN Response(op, 403, denied)
    ELSE Response(op, 0, "")

(* POST /api/maps *)
createMap(userId, body) ==
    LET created(resp, db, mem, n, o) ==
            [resp |-> resp, db |-> db, mem |-> mem, nextId |-> n, nextObjectId |-> o]
        ok == Response("createMap", 201, "Mind map created successfully")
    IN
    IF body.title = NoText \/ trim(body.title) = ""
    THEN created(Response("createMap", 400, "Title is required"),
                 dbMaps, inMemoryMaps, nextId, nextObjectId)
    ELSE IF isMongoConnected
    THEN created(ok, Append(dbMaps, createMapObject(ObjectId(nextObjectId),
                                        trim(body.title), userId)),
                 inMemoryMaps, nextId, nextObjectId + 1)
    ELSE created(ok, dbMaps,
                 Append(inMemoryMaps, createMapObject(NumId(nextId), trim(body.title),
                                          toString(userId))),
                 nextId + 1, nextObjectId)

(* PUT /api/maps/:id *)
updateMap(userId, id, body) ==
    LET failed == "Server Error: Unable to update mind map"
        head == mapLookup("updateMap", id, userId, TRUE,
                          "Access denied: You can only update your own maps", failed)
        i == findMapIndex(id)
        map == mapStore[i]
        updated == [map EXCEPT
                      !.title = IF body.title # NoText THEN trim(body.title) ELSE @,
                      !.nodes = IF body.nodes.defined THEN body.nodes.value ELSE @,
                      !.connections = IF body.connections.defined
                                      THEN body.connections.value ELSE @]
    IN
    IF head.status # 0 THEN MapAnswer(head)
    ELSE IF isMongoConnected /\ updated.title = ""
    THEN MapAnswer(Response("updateMap", 500, failed))
    ELSE MapWritten(Response("updateMap", 200, "Mind map updated successfully"),
                    i, updated)

(* DELETE /api/maps/:id *)
deleteMap(userId, id) ==
    LET failed == "Server Error: Unable to delete mind map"
        head == mapLookup("deleteMap", id, userId, TRUE,
                          "Access denied: You can only delete your own maps", failed)
        i == findMapIndex(id)
        ok == Response("deleteMap", 200, "Mind map deleted successfully")
    IN
    IF head.status # 0 THEN MapAnswer(head)
    ELSE IF isMongoConnected
    THEN [resp |-> ok, db |-> Without(dbMaps, i), mem |-> inMemoryMaps]
    ELSE [resp |-> ok, db |-> dbMaps, mem |-> Without(inMemoryMaps, i)]

(* POST /api/maps/:id/nodes; nodeId is the outcome of Math.random *)
addNode(userId, id, body, nodeId) ==
    LET failed == "Server Error: Unable to add node"
        head == mapLookup("addNode", id, userId, TRUE,
                          "Access denied: You can only modify your own maps", failed)
        i == findMapIndex(id)
        map == mapStore[i]
        newNode == [id |-> nodeId, text |-> trim(body.text), x |-> body.x,
                    y |-> body.y, parent |-> NoText, color |-> "#ffffff"]
    IN
    IF body.text = NoText \/ trim(body.text) = ""
    THEN MapAnswer(Response("addNode", 400, "Node text is required"))
    ELSE IF body.x = Null \/ body.y = Null
    THEN MapAnswer(Response("addNode", 400, "Node position (x, y) is required"))
    ELSE IF head.status # 0 THEN MapAnswer(head)
    ELSE MapWritten(Response("addNode", 201, "Node added successfully"), i,
                    [map EXCEPT !.nodes = Append(@, newNode)])

nodeIndexOf(map, nodeId) ==
    IndexWhere({k \in DOMAIN map.nodes : map.nodes[k].id = nodeId})

(* PUT /api/maps/:id/nodes/:nodeId *)
updateNode(userId, id, nodeId, body) ==
    LET failed == "Server Error: Unable to update node"
        head == mapLookup("updateNode", id, userId, TRUE,
                          "Access denied: You can only modify your own maps", failed)
        i == findMapIndex(id)
        map == mapStore[i]
        nodeIndex == nodeIndexOf(map, nodeId)
        node == map.nodes[nodeIndex]
        updated == [node EXCEPT
                      !.text = IF body.text # NoText THEN trim(body.text) ELSE @,
                      !.x = IF body.x # Null THEN body.x ELSE @,
                      !.y = IF body.y # Null THEN body.y ELSE @]
    IN
    IF head.status # 0 THEN MapAnswer(head)
    ELSE IF nodeIndex = 0
    THEN MapAnswer(Response("updateNode", 404, "Node not found"))
    ELSE IF isMongoConnected /\ updated.text = ""
    THEN MapAnswer(Response("updateNode", 500, failed))
    ELSE MapWritten(Response("updateNode", 200, "Node updated successfully"), i,
                    [map EXCEPT !.nodes[nodeIndex] = updated])

keptConnections(connections, nodeId) ==
    SelectSeq(connections, LAMBDA conn : conn.from # nodeId /\ conn.to # nodeId)

(* DELETE /api/maps/:id/nodes/:nodeId *)
deleteNode(userId, id, nodeId) ==
    LET failed == "Server Error: Unable to delete node"
        head == mapLookup("deleteNode", id, userId, TRUE,
                          "Access denied: You can only modify your own maps", failed)
        i == findMapIndex(id)
        map == mapStore[i]
        nodeIndex == nodeIndexOf(map, nodeId)
    IN
    IF head.status # 0 THEN MapAnswer(head)
    ELSE IF nodeIndex = 0
    THEN MapAnswer(Response("deleteNode", 404, "Node not found"))
    ELSE MapWritten(Response("deleteNode", 200, "Node deleted successfully"), i,
                    [map EXCEPT !.nodes = Without(@, nodeIndex),
                                !.connections = keptConnections(@, nodeId)])

connectionIndexOf(map, from, to) ==
    IndexWhere({k \in DOMAIN map.connections :
                   \/ map.connections[k].from = from /\ map.connections[k].to = to
                   \/ map.connections[k].from = to /\ map.connections[k].to = from})

(* POST /api/maps/:id/connections. The database branch checks ownership   *)
(* (lines 634-640); the in-memory branch (lines 670-705) has no such      *)
(* check. The schema gives a stored connection its default type.          *)
addConnection(userId, id, body) ==
    LET failed == "Server Error: Unable to add connection"
        head == mapLookup("addConnection", id, userId, isMongoConnected,
                          "Access denied: You can only modify your own maps", failed)
        i == findMapIndex(id)
        map == mapStore[i]
        newConnection == [from |-> body.from, to |-> body.to,
                          type |-> IF isMongoConnected THEN "regular" ELSE NoText]
    IN
    IF body.from = NoText \/ body.to = NoText
    THEN MapAnswer(Response("addConnection", 400,
                            "Both from and to node IDs are required"))
    ELSE IF body.from = body.to
    THEN MapAnswer(Response("addConnection", 400, "Cannot connect a node to itself"))
    ELSE IF head.status # 0 THEN MapAnswer(head)
    ELSE IF nodeIndexOf(map, body.from) = 0 \/ nodeIndexOf(map, body.to) = 0
    THEN MapAnswer(Response("addConnection", 404, "One or both nodes not found"))
    ELSE IF connectionIndexOf(map, body.from, body.to) # 0
    THEN MapAnswer(Response("addConnection", 400,
                            "Connection already exists between these nodes"))
    ELSE MapWritten(Response("addConnection", 201, "Connection added successfully"),
                    i, [map EXCEPT !.connections = Append(@, newConnection)])

(* DELETE /api/maps/:id/connections *)
deleteConnection(userId, id, body) ==
    LET failed == "Server Error: Unable to delete connection"
        head == mapLookup("deleteConnection", id, userId, TRUE,
                          "Access denied: You can only modify your own maps", failed)
        i == findMapIndex(id)
        map == mapStore[i]
        connectionIndex == connectionIndexOf(map, body.from, body.to)
    IN
    IF body.from = NoText \/ body.to = NoText
    THEN MapAnswer(Response("deleteConnection", 400,
                            "Both from and to node IDs are required"))
    ELSE IF head.status # 0 THEN MapAnswer(head)
    ELSE IF connectionIndex = 0
    THEN MapAnswer(Response("deleteConnection", 404, "Connection not found"))
    ELSE MapWritten(Response("deleteConnection", 200,
                             "Connection deleted successfully"),
                    i, [map EXCEPT !.connections = Without(@, connectionIndex)])

----------------------------------------------------------------------------
(* The state machine *)

(* A configured JWT_EXPIRES_IN that outlasts the idle window *)
LongLivedJwtExpiresIn == IdleWindow + 2
RegisterRequests == [username : Usernames, email : Emails, password : Passwords]
LoginRequests == [username : Usernames \cup Emails,
                  password : {PwStrong, PwOther, PwEmpty},
                  twoFactorCode : Codes]

(* The tokens a client can send: none, the one it holds, or a forgery of it *)
Presentable(c) == {NoToken, held[c], [held[c] EXCEPT !.sig = "forged"]}

(* No strength check asked: a request body with its password, unanswered; *)
(* no handler suspended in a slot                                          *)
Unanswered(password) ==
    [password |-> password, status |-> 0,
     data |-> [isValid |-> FALSE, score |-> 0, strength |-> "none"]]
NoCheck == Unanswered(<< >>)
Slots == {"r1", "r2"}
NoFlight == [phase |-> "idle"]

NoTrack == [streak |-> 0, fifthAt |-> Null]
Idle == Response("idle", 0, "")

(* The process after start-up: no connection yet, clearAllUsers() has run *)
Started(expiresIn) ==
    /\ mongoConnected = FALSE
    /\ dbUsers = << >>
    /\ inMemoryUsers = << >>
    /\ nextUserId = 1
    /\ now = 0
    /\ jwtExpiresIn = expiresIn
    /\ held = [c \in Clients |-> NoToken]
    /\ issuedTo = [c \in Clients |-> NoName]
    /\ dbMaps = << >>
    /\ inMemoryMaps = << >>
    /\ nextId = 1
    /\ nextObjectId = 1
    /\ session = [c \in Clients |-> NoSecret]
    /\ track = << >>
    /\ last = Idle
    /\ inflight = [slot \in Slots |-> NoFlight]

Init == Started(DefaultJwtExpiresIn) /\ strength = NoCheck

InitLongLived == Started(LongLivedJwtExpiresIn) /\ strength = NoCheck

(* Faulty variant: one pending slot for the whole process *)
tempTwoFactorSecret_shared(c) ==
    IF session[c] # NoSecret THEN session[c]
    ELSE IF \E other \in Clients : session[other] # NoSecret
    THEN CHOOSE secret \in Secrets : \E other \in Clients : session[other] = secret
    ELSE NoSecret

(* req.session.tempTwoFactorSecret: express-session hands the handler the  *)
(* session of the request's cookie                                         *)
tempTwoFactorSecret(c) == session[c]

(* The client keeps the token of a response that carries one *)
Receive(c, resp) ==
    IF resp.token # NoToken THEN [held EXCEPT ![c] = resp.token] ELSE held

(* ... and the username the response names beside it *)
Issued(c, resp) ==
    IF resp.token # NoToken THEN [issuedTo EXCEPT ![c] = resp.username] ELSE issuedTo

Register(c, req) ==
    LET r == register(req)
    IN /\ dbUsers' = r.db
       /\ inMemoryUsers' = r.mem
       /\ nextUserId' = r.nextId
       /\ held' = Receive(c, r.resp)
       /\ issuedTo' = Issued(c, r.resp)
       /\ track' = IF Len(r.db) > Len(dbUsers) THEN Append(track, NoTrack) ELSE track
       /\ last' = r.resp
       /\ UNCHANGED <<strength, inflight, mongoConnected, now, jwtExpiresIn, session,
                   dbMaps, inMemoryMaps, nextId, nextObjectId>>

(* History, per database user: the number of consecutive failed password   *)
(* authentications since the record was created or last authenticated, and *)
(* the time of the latest failure that was the fifth of its streak.        *)
Tracked(resp) ==
    LET Match(u) == u._id = resp.user
        i == IndexWhere({idx \in DOMAIN dbUsers : Match(dbUsers[idx])})
    IN IF i = 0 \/ (resp.status = 400 /\ resp.message = MsgValidationFailed)
       THEN track
       ELSE IF resp.message \in {MsgLocked, MsgInvalidCredentials}
       THEN [track EXCEPT ![i] = [streak |-> IF @.streak > LockThreshold
                                             THEN @.streak ELSE @.streak + 1,
                                  fifthAt |-> IF @.streak + 1 = LockThreshold
                                              THEN now ELSE @.fifthAt]]
       ELSE [track EXCEPT ![i].streak = 0]

Login(c, req) ==
    LET r == login(req)
    IN /\ \A i \in DOMAIN r.db : r.db[i].loginAttempts <= MaxAttempts
       /\ dbUsers' = r.db
       /\ inMemoryUsers' = r.mem
       /\ held' = Receive(c, r.resp)
       /\ issuedTo' = Issued(c, r.resp)
       /\ track' = Tracked(r.resp)
       /\ last' = r.resp
       /\ UNCHANGED <<strength, inflight, mongoConnected, nextUserId, now, jwtExpiresIn, session,
                   dbMaps, inMemoryMaps, nextId, nextObjectId>>

(* POST /auth/register and POST /auth/login while the database fails *)
RegisterStorageFailure(c, req) ==
    LET r == registerOnStorageFailure(req)
    IN /\ mongoConnected
       /\ dbUsers' = r.db
       /\ inMemoryUsers' = r.mem
       /\ nextUserId' = r.nextId
       /\ held' = Receive(c, r.resp)
       /\ issuedTo' = Issued(c, r.resp)
       /\ last' = r.resp
       /\ UNCHANGED <<strength, inflight, mongoConnected, now, jwtExpiresIn,
                      session, track,
                   dbMaps, inMemoryMaps, nextId, nextObjectId>>

LoginStorageFailure(c, req) ==
    LET r == loginOnStorageFailure(req)
    IN /\ mongoConnected
       /\ dbUsers' = r.db
       /\ inMemoryUsers' = r.mem
       /\ held' = Receive(c, r.resp)
       /\ issuedTo' = Issued(c, r.resp)
       /\ track' = Tracked(r.resp)
       /\ last' = r.resp
       /\ UNCHANGED <<strength, inflight, mongoConnected, nextUserId, now,
                      jwtExpiresIn, session,
                   dbMaps, inMemoryMaps, nextId, nextObjectId>>

(* GET /auth/profile: authenticateToken, then getProfile *)
GetProfile(c, token, cast) ==
    LET gate == authenticateToken(token, cast)
    IN /\ dbUsers' = gate.db
       /\ inMemoryUsers' = gate.mem
       /\ last' = GateResponse("profile", gate)
       /\ UNCHANGED <<strength, inflight, mongoConnected, nextUserId, now, jwtExpiresIn, held, issuedTo,
                      session, track,
                   dbMaps, inMemoryMaps, nextId, nextObjectId>>

(* GET /maps: optionalAuth, then getAllMaps, which reads the maps only *)
GetAllMaps(c, token, cast) ==
    LET o == optionalAuth(token, cast)
    IN /\ dbUsers' = o.db
       /\ inMemoryUsers' = o.mem
       /\ last' = [Response("maps", 200, "") EXCEPT !.user = o.user._id]
       /\ UNCHANGED <<strength, inflight, mongoConnected, nextUserId, now,
                      jwtExpiresIn, held, issuedTo, session, track,
                   dbMaps, inMemoryMaps, nextId, nextObjectId>>

(* POST /auth/2fa/setup: authenticateToken, then setupTwoFactor *)
SetupTwoFactor(c, token, cast, secret) ==
    LET gate == authenticateToken(token, cast)
        r == setupTwoFactor(gate, tempTwoFactorSecret(c), secret)
    IN /\ dbUsers' = gate.db
       /\ inMemoryUsers' = gate.mem
       /\ session' = IF gate.admitted THEN [session EXCEPT ![c] = r.pending]
                     ELSE session
       /\ last' = IF gate.admitted THEN r.resp ELSE GateResponse("setup", gate)
       /\ UNCHANGED <<strength, inflight, mongoConnected, nextUserId, now, jwtExpiresIn, held, issuedTo, track,
                   dbMaps, inMemoryMaps, nextId, nextObjectId>>

(* POST /auth/2fa/verify: authenticateToken, then verifyTwoFactor *)
VerifyTwoFactor(c, token, cast, code) ==
    LET gate == authenticateToken(token, cast)
        r == verifyTwoFactor(gate, tempTwoFactorSecret(c), code)
    IN /\ dbUsers' = IF gate.admitted THEN r.db ELSE gate.db
       /\ inMemoryUsers' = gate.mem
       /\ session' = IF gate.admitted THEN [session EXCEPT ![c] = r.pending]
                     ELSE session
       /\ last' = IF gate.admitted THEN r.resp ELSE GateResponse("verify", gate)
       /\ UNCHANGED <<strength, inflight, mongoConnected, nextUserId, now, jwtExpiresIn, held, issuedTo, track,
                   dbMaps, inMemoryMaps, nextId, nextObjectId>>

(* POST /auth/2fa/disable: authenticateToken, then disableTwoFactor *)
DisableTwoFactor(c, token, cast, password) ==
    LET gate == authenticateToken(token, cast)
        r == disableTwoFactor(gate, password)
    IN /\ dbUsers' = IF gate.admitted THEN r.db ELSE gate.db
       /\ inMemoryUsers' = gate.mem
       /\ last' = IF gate.admitted THEN r.resp ELSE GateResponse("disable", gate)
       /\ UNCHANGED <<strength, inflight, mongoConnected, nextUserId, now, jwtExpiresIn, held, issuedTo,
                      session, track,
                   dbMaps, inMemoryMaps, nextId, nextObjectId>>

(* POST /auth/check-password-strength *)
CheckPasswordStrength ==
    /\ strength.status = 0
    /\ strength' = checkPasswordStrength(strength.password)
    /\ UNCHANGED <<mongoConnected, dbUsers, inMemoryUsers, nextUserId, now,
                   jwtExpiresIn, held, issuedTo, session, track, last, inflight,
                   dbMaps, inMemoryMaps, nextId, nextObjectId>>

(* The clock advances *)
Tick ==
    /\ now < MaxTime
    /\ now' = now + 1
    /\ last' = Idle
    /\ UNCHANGED <<strength, inflight, mongoConnected, dbUsers, inMemoryUsers, nextUserId,
                   jwtExpiresIn, held, issuedTo, session, track,
                   dbMaps, inMemoryMaps, nextId, nextObjectId>>

(* mongoose.connection.readyState changes: the database connects or drops *)
MongoConnect ==
    /\ ~mongoConnected
    /\ mongoConnected' = TRUE
    /\ last' = Idle
    /\ UNCHANGED <<strength, inflight, dbUsers, inMemoryUsers, nextUserId, now, jwtExpiresIn, held, issuedTo,
                   session, track,
                   dbMaps, inMemoryMaps, nextId, nextObjectId>>

MongoDisconnect ==
    /\ mongoConnected
    /\ mongoConnected' = FALSE
    /\ last' = Idle
    /\ UNCHANGED <<strength, inflight, dbUsers, inMemoryUsers, nextUserId, now, jwtExpiresIn, held, issuedTo,
                   session, track,
                   dbMaps, inMemoryMaps, nextId, nextObjectId>>

(* The process restarts: the modules are loaded again, so clearAllUsers   *)
(* runs on the fresh user list and id counter and the in-memory maps      *)
(* start empty; the session store and every suspended handler are gone,   *)
(* and the clients keep their tokens                                      *)
Restart ==
    /\ inMemoryUsers' = << >>
    /\ nextUserId' = 1
    /\ mongoConnected' = FALSE
    /\ session' = [c \in Clients |-> NoSecret]
    /\ inflight' = [slot \in Slots |-> NoFlight]
    /\ last' = Idle
    /\ inMemoryMaps' = << >>
    /\ nextId' = 1
    /\ UNCHANGED <<strength, dbUsers, now, jwtExpiresIn, held, issuedTo, track,
                   dbMaps, nextObjectId>>

(* A handler answers: its slot is free again *)
Answer(slot, c, resp) ==
    /\ inflight' = [inflight EXCEPT ![slot] = NoFlight]
    /\ held' = Receive(c, resp)
    /\ issuedTo' = Issued(c, resp)
    /\ last' = resp

(* A handler awaits: its slot keeps what it has read *)
Suspend(slot, flight) ==
    /\ inflight' = [inflight EXCEPT ![slot] = flight]
    /\ last' = Idle
    /\ UNCHANGED <<held, issuedTo, issuedTo>>

(* POST /auth/login up to its first await: getAuthenticated's findOne, or  *)
(* the in-memory find and the call of comparePassword                      *)
LoginFind(slot, c, req) ==
    LET Match(u) == u.username = req.username \/ u.email = req.username
        store == IF isMongoConnected THEN dbUsers ELSE inMemoryUsers
        i == IndexWhere({idx \in DOMAIN store : Match(store[idx])})
        notFound == [error |-> MsgUserNotFound, user |-> NoUser, db |-> dbUsers,
                     mem |-> inMemoryUsers, compared |-> FALSE]
    IN /\ inflight[slot] = NoFlight
       /\ IF ~loginValidation(req)
          THEN Answer(slot, c, Response("login", 400, MsgValidationFailed))
          ELSE IF i = 0
          THEN Answer(slot, c, loginRespond(req, notFound).resp)
          ELSE Suspend(slot, [phase |-> "compare", client |-> c, req |-> req,
                              isMongoConnected |-> isMongoConnected,
                              user |-> store[i], index |-> i])
       /\ UNCHANGED <<strength, mongoConnected, dbUsers, inMemoryUsers,
                      nextUserId, now, jwtExpiresIn, session, track,
                   dbMaps, inMemoryMaps, nextId, nextObjectId>>

(* POST /auth/login from the end of the comparison to the response *)
LoginComplete(slot) ==
    LET f == inflight[slot]
        auth == IF f.isMongoConnected
                THEN LET a == authenticateLoaded(f.user, f.req.password)
                     IN [error |-> a.error, user |-> a.user, db |-> a.db,
                         mem |-> inMemoryUsers, compared |-> a.compared]
                ELSE LET a == inMemoryLoaded(f.index, f.req.password)
                     IN [error |-> a.error, user |-> a.user, db |-> dbUsers,
                         mem |-> a.mem, compared |-> a.compared]
        r == loginRespond(f.req, auth)
    IN /\ f.phase = "compare"
       /\ \A i \in DOMAIN r.db : r.db[i].loginAttempts <= MaxAttempts
       /\ dbUsers' = r.db
       /\ inMemoryUsers' = r.mem
       /\ track' = Tracked(r.resp)
       /\ Answer(slot, f.client, r.resp)
       /\ UNCHANGED <<strength, mongoConnected, nextUserId, now, jwtExpiresIn,
                      session,
                   dbMaps, inMemoryMaps, nextId, nextObjectId>>

(* POST /auth/login in database mode, up to the await of the write that   *)
(* getAuthenticated makes on a matching password (user.updateOne or       *)
(* user.save, User.js:137-153): lastActivity is stamped here              *)
LoginSave(slot, c, req) ==
    LET a == getAuthenticated(req.username, req.password)
        auth == [error |-> a.error, user |-> a.user, db |-> a.db,
                 mem |-> inMemoryUsers, compared |-> a.compared]
    IN /\ inflight[slot] = NoFlight
       /\ isMongoConnected
       /\ loginValidation(req)
       /\ a.error = ""
       /\ dbUsers' = a.db
       /\ track' = Tracked(loginRespond(req, auth).resp)
       /\ Suspend(slot, [phase |-> "saved", client |-> c, req |-> req, auth |-> auth,
                           since |-> now])
       /\ UNCHANGED <<strength, mongoConnected, inMemoryUsers, nextUserId, now,
                      jwtExpiresIn, session,
                   dbMaps, inMemoryMaps, nextId, nextObjectId>>

(* POST /auth/login from the end of that write on: the two-factor check   *)
(* and generateToken, lines 246-289                                       *)
LoginIssue(slot) ==
    LET f == inflight[slot]
    IN /\ f.phase = "saved"
       /\ Answer(slot, f.client, loginRespond(f.req, f.auth).resp)
       /\ UNCHANGED <<strength, mongoConnected, dbUsers, inMemoryUsers, nextUserId,
                      now, jwtExpiresIn, session, track,
                   dbMaps, inMemoryMaps, nextId, nextObjectId>>

(* GET /auth/profile up to the await of getUserFromStorage: the token is  *)
(* read and jwt.verify has accepted it                                    *)
GateVerify(slot, c, token) ==
    LET decoded == jwtVerify(token)
    IN /\ inflight[slot] = NoFlight
       /\ token # NoToken
       /\ decoded.error = ""
       /\ Suspend(slot, [phase |-> "lookup", client |-> c, decoded |-> decoded,
                           since |-> now])
       /\ UNCHANGED <<strength, mongoConnected, dbUsers, inMemoryUsers, nextUserId,
                      now, jwtExpiresIn, session, track,
                   dbMaps, inMemoryMaps, nextId, nextObjectId>>

(* GET /auth/profile from the answer of getUserFromStorage on *)
GateResume(slot, cast) ==
    LET f == inflight[slot]
        gate == authenticateVerified(f.decoded, cast)
    IN /\ f.phase = "lookup"
       /\ dbUsers' = gate.db
       /\ inMemoryUsers' = gate.mem
       /\ Answer(slot, f.client, GateResponse("profile", gate))
       /\ UNCHANGED <<strength, mongoConnected, nextUserId, now, jwtExpiresIn,
                      session, track,
                   dbMaps, inMemoryMaps, nextId, nextObjectId>>

(* The clock passes to its next reading while handlers wait. No wait lasts *)
(* a whole unit: a suspended handler sees the clock change at most once.  *)
Elapse ==
    /\ \A slot \in Slots :
          IF inflight[slot] = NoFlight THEN TRUE ELSE inflight[slot].since = now
    /\ Tick

(* A map route behind authenticateToken: the gate, then the handler with *)
(* req.user = the attached user. r is what the handler does for that user *)
MapRequest(c, cast, op, r) ==
    LET gate == authenticateToken(held[c], cast)
    IN /\ dbUsers' = gate.db
       /\ inMemoryUsers' = gate.mem
       /\ IF gate.admitted
          THEN /\ dbMaps' = r.db
               /\ inMemoryMaps' = r.mem
               /\ last' = r.resp
          ELSE /\ UNCHANGED <<dbMaps, inMemoryMaps>>
               /\ last' = GateResponse(op, gate)
       /\ UNCHANGED <<strength, inflight, mongoConnected, nextUserId, now, jwtExpiresIn,
                      held, issuedTo, session, track>>

(* req.user._id of a request of client c that the gate admits *)
caller(c, cast) == authenticateToken(held[c], cast).user._id

CreateMap(c, cast, body) ==
    LET r == createMap(caller(c, cast), body)
    IN /\ r.nextId <= MaxMaps + 1
       /\ r.nextObjectId <= MaxMaps + 1
       /\ MapRequest(c, cast, "createMap", r)
       /\ IF authenticateToken(held[c], cast).admitted
          THEN nextId' = r.nextId /\ nextObjectId' = r.nextObjectId
          ELSE UNCHANGED <<nextId, nextObjectId>>

UpdateMap(c, cast, id, body) ==
    /\ MapRequest(c, cast, "updateMap", updateMap(caller(c, cast), id, body))
    /\ UNCHANGED <<nextId, nextObjectId>>

DeleteMap(c, cast, id) ==
    /\ MapRequest(c, cast, "deleteMap", deleteMap(caller(c, cast), id))
    /\ UNCHANGED <<nextId, nextObjectId>>

(* Math.random gives the new node an id no node of the map has *)
AddNode(c, cast, id, body, nodeId) ==
    /\ \A i \in DOMAIN mapStore :
          \A k \in DOMAIN mapStore[i].nodes : mapStore[i].nodes[k].id # nodeId
    /\ MapRequest(c, cast, "addNode", addNode(caller(c, cast), id, body, nodeId))
    /\ UNCHANGED <<nextId, nextObjectId>>

UpdateNode(c, cast, id, nodeId, body) ==
    /\ MapRequest(c, cast, "updateNode", updateNode(caller(c, cast), id, nodeId, body))
    /\ UNCHANGED <<nextId, nextObjectId>>

DeleteNode(c, cast, id, nodeId) ==
    /\ MapRequest(c, cast, "deleteNode", deleteNode(caller(c, cast), id, nodeId))
    /\ UNCHANGED <<nextId, nextObjectId>>

AddConnection(c, cast, id, body) ==
    /\ MapRequest(c, cast, "addConnection", addConnection(caller(c, cast), id, body))
    /\ UNCHANGED <<nextId, nextObjectId>>

DeleteConnection(c, cast, id, body) ==
    /\ MapRequest(c, cast, "deleteConnection",
                  deleteConnection(caller(c, cast), id, body))
    /\ UNCHANGED <<nextId, nextObjectId>>

(* POST /auth/register up to its first await: User.findOne in database    *)
(* mode, hashPassword in in-memory mode. searched records the store the    *)
(* duplicate check of lines 103-113 looked in.                             *)
RegisterBegin(slot, c, req) ==
    LET Match(u) == u.username = req.username \/ u.email = req.email
        store == IF isMongoConnected THEN dbUsers ELSE inMemoryUsers
        i == IndexWhere({idx \in DOMAIN store : Match(store[idx])})
    IN /\ inflight[slot] = NoFlight
       /\ IF ~registerValidation(req)
          THEN Answer(slot, c, Response("register", 400, MsgValidationFailed))
          ELSE IF isMongoConnected
          THEN Suspend(slot, [phase |-> "findOne", client |-> c, req |-> req,
                              searched |-> "database",
                              existingUser |-> IF i = 0 THEN NoUser ELSE store[i]])
          ELSE IF i # 0
          THEN Answer(slot, c, Response("register", 409,
                          IF store[i].username = req.username
                          THEN "Username already exists" ELSE "Email already exists"))
          ELSE IF Len(req.password) < MinPasswordLength
          THEN Answer(slot, c, Response("register", 400,
                                        "Password must be at least 8 characters long"))
          ELSE Suspend(slot, [phase |-> "hash", client |-> c, req |-> req,
                              searched |-> "memory"])
       /\ UNCHANGED <<strength, mongoConnected, dbUsers, inMemoryUsers,
                      nextUserId, now, jwtExpiresIn, session, track,
                   dbMaps, inMemoryMaps, nextId, nextObjectId>>

(* POST /auth/register from the answer of User.findOne on *)
RegisterResume(slot) ==
    LET f == inflight[slot]
        r == registerAfterFindOne(f.req, f.existingUser)
    IN /\ f.phase = "findOne"
       /\ dbUsers' = r.db
       /\ track' = IF Len(r.db) > Len(dbUsers) THEN Append(track, NoTrack) ELSE track
       /\ IF r.suspended
          THEN Suspend(slot, [phase |-> "hash", client |-> f.client, req |-> f.req,
                              searched |-> f.searched])
          ELSE Answer(slot, f.client, r.resp)
       /\ UNCHANGED <<strength, mongoConnected, inMemoryUsers, nextUserId, now,
                      jwtExpiresIn, session,
                   dbMaps, inMemoryMaps, nextId, nextObjectId>>

(* POST /auth/register from the end of hashPassword on *)
RegisterPush(slot) ==
    LET f == inflight[slot]
        r == registerPush(f.req)
    IN /\ f.phase = "hash"
       /\ Len(inMemoryUsers) < MaxUsers
       /\ inMemoryUsers' = r.mem
       /\ nextUserId' = r.nextId
       /\ Answer(slot, f.client, r.resp)
       /\ UNCHANGED <<strength, mongoConnected, dbUsers, now, jwtExpiresIn,
                      session, track,
                   dbMaps, inMemoryMaps, nextId, nextObjectId>>

(* The requests that drive the behaviours. The handlers are defined for   *)
(* every request of RegisterRequests and LoginRequests.                   *)
DrivenClients == {"c1"}
DrivenRegister == [username : {"alice"}, email : {"alice@x.com"},
                   password : {PwStrong, PwShort}]
DrivenLogin == [username : {"alice", "bob"}, password : {PwStrong, PwOther},
                twoFactorCode : {NoCode}]

Next ==
    \/ \E c \in DrivenClients, req \in DrivenRegister : Register(c, req)
    \/ \E c \in DrivenClients, req \in DrivenLogin : Login(c, req)
    \/ \E c \in DrivenClients : \E token \in Presentable(c), cast \in CastOutcomes :
          GetProfile(c, token, cast)
    \/ \E c \in DrivenClients : \E token \in Presentable(c), cast \in CastOutcomes :
          GetAllMaps(c, token, cast)
    \/ Tick
    \/ MongoConnect
    \/ MongoDisconnect

(* Two-factor enrolment and login, at one instant *)
DrivenTwoFactorLogin == [username : {"alice"}, password : {PwStrong, PwOther},
                         twoFactorCode : Codes]

DrivenDisable == {PwStrong, PwOther, PwEmpty}

NextTwoFactor ==
    \/ \E c \in DrivenClients, req \in DrivenRegister : Register(c, req)
    \/ \E c \in DrivenClients, req \in DrivenTwoFactorLogin : Login(c, req)
    \/ \E c \in DrivenClients : \E token \in Presentable(c), cast \in CastOutcomes,
          secret \in Secrets : SetupTwoFactor(c, token, cast, secret)
    \/ \E c \in DrivenClients : \E token \in Presentable(c), cast \in CastOutcomes,
          code \in Codes : VerifyTwoFactor(c, token, cast, code)
    \/ \E c \in DrivenClients : \E token \in Presentable(c), cast \in CastOutcomes,
          password \in DrivenDisable : DisableTwoFactor(c, token, cast, password)
    \/ \E c \in DrivenClients, req \in DrivenRegister : RegisterStorageFailure(c, req)
    \/ \E c \in DrivenClients, req \in DrivenTwoFactorLogin :
          LoginStorageFailure(c, req)
    \/ MongoConnect
    \/ MongoDisconnect

(* Passwords for the strength check: every stem of up to MaxStem           *)
(* characters, one of each class and one of no class, followed by up to    *)
(* MaxFill characters of no class                                          *)
StrengthAlphabet == {"a", "S", "1", "!", "#"}
Stems == UNION {[1..k -> StrengthAlphabet] : k \in 0..MaxStem}
Fill(n) == [j \in 1..n |-> "#"]
StrengthInputs == {stem \o Fill(n) : stem \in Stems, n \in 0..MaxFill}

InitStrength ==
    /\ Started(DefaultJwtExpiresIn)
    /\ strength \in {Unanswered(password) : password \in StrengthInputs}

NextStrength == CheckPasswordStrength

(* Default configuration: registration, login, lockout and the session gate *)
Spec == Init /\ [][Next]_vars

(* The same with a token lifetime longer than the idle window *)
SpecLongLived == InitLongLived /\ [][Next]_vars

(* Default configuration: two-factor enrolment and login *)
SpecTwoFactor == Init /\ [][NextTwoFactor]_vars

DrivenConcurrentRegister == [username : {"alice"}, email : {"alice@x.com"},
                            password : {PwStrong}]

DrivenConcurrentLogin == [username : {"alice"}, password : {PwStrong, PwOther},
                          twoFactorCode : {NoCode}]

(* Two-factor enrolment from two sessions, either of which may hold the   *)
(* token of the same user                                                  *)
NextTwoSessions ==
    \/ \E c \in Clients, req \in DrivenConcurrentRegister : Register(c, req)
    \/ \E c \in Clients, req \in DrivenConcurrentLogin : Login(c, req)
    \/ \E c \in Clients : \E token \in Presentable(c), cast \in CastOutcomes,
          secret \in Secrets : SetupTwoFactor(c, token, cast, secret)
    \/ \E c \in Clients : \E token \in Presentable(c), cast \in CastOutcomes,
          code \in Codes : VerifyTwoFactor(c, token, cast, code)
    \/ MongoConnect
    \/ MongoDisconnect

SpecTwoSessions == Init /\ [][NextTwoSessions]_vars

(* Requests overlapping on the event loop, the clock standing still *)
NextConcurrent ==
    \/ \E slot \in Slots, c \in DrivenClients, req \in DrivenConcurrentRegister :
          RegisterBegin(slot, c, req)
    \/ \E slot \in Slots : RegisterResume(slot)
    \/ \E slot \in Slots : RegisterPush(slot)
    \/ \E slot \in Slots, c \in DrivenClients, req \in DrivenConcurrentLogin :
          LoginFind(slot, c, req)
    \/ \E slot \in Slots : LoginComplete(slot)
    \/ MongoConnect
    \/ MongoDisconnect

SpecConcurrent == Init /\ [][NextConcurrent]_vars

(* The password strength check on its own *)
SpecStrength == InitStrength /\ [][NextStrength]_vars

(* The clock moves while handlers wait for the database *)
NextAwaits ==
    \/ \E c \in DrivenClients, req \in DrivenRegister : Register(c, req)
    \/ \E slot \in Slots, c \in DrivenClients, req \in DrivenConcurrentLogin :
          LoginSave(slot, c, req)
    \/ \E slot \in Slots : LoginIssue(slot)
    \/ \E slot \in Slots, c \in DrivenClients : GateVerify(slot, c, held[c])
    \/ \E slot \in Slots, cast \in CastOutcomes : GateResume(slot, cast)
    \/ Elapse
    \/ MongoConnect
    \/ MongoDisconnect

SpecAwaits == Init /\ [][NextAwaits]_vars

(* In-memory mode across restarts of the process *)
DrivenRestartRegister ==
    {[username |-> "alice", email |-> "alice@x.com", password |-> PwStrong],
     [username |-> "bob", email |-> "bob@x.com", password |-> PwStrong]}

NextRestart ==
    \/ \E c \in Clients, req \in DrivenRestartRegister : Register(c, req)
    \/ \E c \in Clients, req \in DrivenLogin : Login(c, req)
    \/ \E c \in Clients : \E token \in Presentable(c), cast \in CastOutcomes :
          GetProfile(c, token, cast)
    \/ Tick
    \/ Restart

SpecRestart == Init /\ [][NextRestart]_vars

(* Two users and their mind maps, at one instant. The database is up     *)
(* from the start or not at all: each run stays in one mode.              *)
MapParams == {toString(ObjectId(n)) : n \in 1..MaxMaps} \cup {toString(NumId(n)) : n \in 1..MaxMaps}
DrivenCreateMap == [title : {"plan", " "}]
DrivenUpdateMap ==
    {[title |-> "goal", nodes |-> Undefined, connections |-> Undefined],
     [title |-> " ", nodes |-> Undefined, connections |-> Undefined],
     [title |-> NoText, nodes |-> Defined(<< >>), connections |-> Defined(<< >>)]}
DrivenAddNode == [text : {"a", " "}, x : {0}, y : {0}]
DrivenUpdateNode == [text : {"b", " "}, x : {Null}, y : {Null}]
DrivenConnection == [from : NodeIds, to : NodeIds]

NextMaps ==
    \/ \E c \in Clients, req \in DrivenRestartRegister :
          (c = "c1") = (req.username = "alice") /\ Register(c, req)
    \/ \E c \in Clients, body \in DrivenCreateMap :
          CreateMap(c, "null", body)
    \/ \E c \in Clients, id \in MapParams, body \in DrivenUpdateMap :
          UpdateMap(c, "null", id, body)
    \/ \E c \in Clients, id \in MapParams : DeleteMap(c, "null", id)
    \/ \E c \in Clients, id \in MapParams, body \in DrivenAddNode,
          nodeId \in NodeIds : AddNode(c, "null", id, body, nodeId)
    \/ \E c \in Clients, id \in MapParams, nodeId \in NodeIds,
          body \in DrivenUpdateNode : UpdateNode(c, "null", id, nodeId, body)
    \/ \E c \in Clients, id \in MapParams, nodeId \in NodeIds :
          DeleteNode(c, "null", id, nodeId)
    \/ \E c \in Clients, id \in MapParams, body \in DrivenConnection :
          AddConnection(c, "null", id, body)
    \/ \E c \in Clients, id \in MapParams, body \in DrivenConnection :
          DeleteConnection(c, "null", id, body)
    \/ (inMemoryUsers = << >> /\ MongoConnect)

SpecMaps == Init /\ [][NextMaps]_vars

----------------------------------------------------------------------------
(* Properties *)

(* The store that is authoritative now, and the record a login name finds *)
Authoritative == IF mongoConnected THEN dbUsers ELSE inMemoryUsers

FoundByName(name) ==
    LET Match(u) == u.username = name \/ u.email = name
    IN IndexWhere({idx \in DOMAIN Authoritative : Match(Authoritative[idx])})

LockedNow(user) == user.lockUntil # Null /\ user.lockUntil > now

UserIds == {ObjectId(1), ObjectId(2), NumId(1), NumId(2)}

(* Every token a request can carry: any user, expired or not, signed by    *)
(* the server or not, and the tokens the clients hold                      *)
TokenUniverse ==
    {NoToken} \cup {held[c] : c \in Clients}
    \cup [userId : UserIds, iat : {0}, exp : 0..(now + 1), sig : {"valid", "forged"}]

(* C1: in database mode, counted from a record with no failures, the first *)
(* four consecutive failed logins leave lockUntil unset and the fifth sets *)
(* it to the time of that failure + 2 hours, from which instant until      *)
(* lockUntil the account is locked.                                        *)
C1_FifthFailureLocks ==
    \A i \in DOMAIN dbUsers :
        /\ track[i].streak \in 1..(LockThreshold - 1)
              => dbUsers[i].lockUntil = Null
        /\ track[i].streak = LockThreshold
              => /\ dbUsers[i].lockUntil = track[i].fifthAt + LockDuration
                 /\ track[i].fifthAt <= now
                 /\ now < dbUsers[i].lockUntil => isLocked(dbUsers[i])

C1_Witness ==
    \E i \in DOMAIN dbUsers :
        /\ track[i].streak = LockThreshold
        /\ last.op = "login" /\ last.message = MsgInvalidCredentials
        /\ last.user = dbUsers[i]._id
        /\ dbUsers[i].lockUntil = now + LockDuration

(* C2: a login that finds a record whose lock has not expired is rejected  *)
(* with the account-locked error, no password comparison runs and no       *)
(* token is issued, whatever password is supplied.                         *)
C2_LockedLoginRejected ==
    \A req \in LoginRequests :
        LET i == FoundByName(req.username)
            r == login(req)
        IN (loginValidation(req) /\ i # 0 /\ LockedNow(Authoritative[i]))
              => /\ r.resp.message = MsgLocked
                 /\ r.resp.status >= 400
                 /\ ~r.resp.compared
                 /\ r.resp.token = NoToken

C2_Witness ==
    /\ last.op = "login" /\ last.message = MsgLocked
    /\ \E i \in DOMAIN dbUsers :
          /\ last.user = dbUsers[i]._id
          /\ LockedNow(dbUsers[i])
          /\ dbUsers[i].password = hashPassword(PwStrong)
          /\ login([username |-> dbUsers[i].username, password |-> PwStrong,
                    twoFactorCode |-> NoCode]).resp.message = MsgLocked

(* C3: a registration that passes validation and reuses a username or an  *)
(* email of the authoritative store gets 409 and changes no store; one     *)
(* that passes validation with an unused username and email gets 201 with *)
(* a token and adds exactly one record to the authoritative store.         *)
C3_RegisterConflictOrCreate ==
    \A req \in RegisterRequests :
        LET taken == \E i \in DOMAIN Authoritative :
                        \/ Authoritative[i].username = req.username
                        \/ Authoritative[i].email = req.email
            r == register(req)
            after == IF mongoConnected THEN r.db ELSE r.mem
        IN registerValidation(req) =>
              IF taken
              THEN r.resp.status = 409 /\ r.db = dbUsers /\ r.mem = inMemoryUsers
              ELSE /\ r.resp.status = 201
                   /\ r.resp.token # NoToken
                   /\ Len(after) = Len(Authoritative) + 1
                   /\ SubSeq(after, 1, Len(Authoritative)) = Authoritative
                   /\ after[Len(after)].username = req.username
                   /\ after[Len(after)].email = req.email

(* C4: the login response for an unknown name and the login response for  *)
(* a known, unlocked user with a wrong password carry the same status and  *)
(* the same message.                                                       *)
C4_NoUserEnumeration ==
    \A unknown \in LoginRequests, wrong \in LoginRequests :
        LET i == FoundByName(wrong.username)
        IN (/\ loginValidation(unknown) /\ loginValidation(wrong)
            /\ FoundByName(unknown.username) = 0
            /\ i # 0
            /\ ~LockedNow(Authoritative[i])
            /\ Authoritative[i].password # hashPassword(wrong.password))
              => /\ login(unknown).resp.status = login(wrong).resp.status
                 /\ login(unknown).resp.message = login(wrong).resp.message

(* C5: a login against a currently locked account is answered with 423. *)
C5_LockedLoginIs423 ==
    \A req \in LoginRequests :
        LET i == FoundByName(req.username)
        IN (loginValidation(req) /\ i # 0 /\ LockedNow(Authoritative[i]))
              => login(req).resp.status = 423

(* C6: the gate admits a request only if its token is signed by the       *)
(* server, unexpired, carries the id of a record of the authoritative      *)
(* store, and that record is not locked; the record it attaches is that    *)
(* one.                                                                    *)
C6_GateAdmitsOnlyValidSessions ==
    \A token \in TokenUniverse, cast \in CastOutcomes :
        LET gate == authenticateToken(token, cast)
        IN gate.admitted =>
              /\ token.sig = "valid"
              /\ now < token.exp
              /\ gate.user._id = token.userId
              /\ \E i \in DOMAIN Authoritative :
                    /\ Authoritative[i]._id = token.userId
                    /\ ~LockedNow(Authoritative[i])

C6_Witness ==
    /\ last.op = "profile" /\ last.status = 200
    /\ mongoConnected
    /\ \E i \in DOMAIN dbUsers :
          dbUsers[i]._id = last.user /\ dbUsers[i].loginAttempts > 0

(* C7: a token verified at the instant it was issued for u yields userId  *)
(* u; from 30 minutes after its issuance on, verification fails with       *)
(* TokenExpiredError and the gate answers 401.                             *)
C7_TokenRoundTripAndExpiry ==
    /\ \A u \in UserIds :
          jwtVerify(generateToken(u)) = [error |-> "", userId |-> u]
    /\ last.token # NoToken
          => jwtVerify(last.token) = [error |-> "", userId |-> last.user]
    /\ \A c \in Clients :
          (held[c] # NoToken /\ now >= held[c].iat + DefaultJwtExpiresIn)
              => /\ jwtVerify(held[c]).error = "TokenExpiredError"
                 /\ \A cast \in CastOutcomes :
                       /\ authenticateToken(held[c], cast).status = 401
                       /\ ~authenticateToken(held[c], cast).admitted

C7_Witness ==
    /\ last.op = "profile" /\ last.status = 401 /\ last.message = "Token expired"
    /\ \E c \in Clients : held[c] # NoToken /\ now >= held[c].iat + DefaultJwtExpiresIn

(* The record of the authoritative store that a token's userId names *)
FoundById(id) ==
    LET Match(u) == u._id = id
    IN IndexWhere({idx \in DOMAIN Authoritative : Match(Authoritative[idx])})

(* A validly signed, unexpired token whose user has been idle for more     *)
(* than 30 minutes                                                         *)
IdleSession(token) ==
    LET i == FoundById(token.userId)
    IN /\ token.sig = "valid"
       /\ now < token.exp
       /\ i # 0
       /\ Authoritative[i].lastActivity # Null
       /\ Authoritative[i].lastActivity < now - IdleWindow

(* C8, as stated: every request with a validly signed, unexpired token     *)
(* whose user was last active more than 30 minutes ago is rejected with    *)
(* 401, session expired, and the handler does not run.                     *)
C8_IdleSessionAlways401 ==
    \A token \in TokenUniverse, cast \in CastOutcomes :
        LET gate == authenticateToken(token, cast)
        IN IdleSession(token)
              => /\ gate.status = 401
                 /\ gate.message = "Session expired due to inactivity"
                 /\ ~gate.admitted

(* C8, amended: such a request is never admitted and changes no record;   *)
(* it is rejected with 401, session expired, unless in database mode the   *)
(* account is currently locked, which is checked first and answered 423.   *)
C8_IdleSessionRejected ==
    \A token \in TokenUniverse, cast \in CastOutcomes :
        LET gate == authenticateToken(token, cast)
            user == Authoritative[FoundById(token.userId)]
        IN IdleSession(token)
              => /\ ~gate.admitted
                 /\ gate.db = dbUsers /\ gate.mem = inMemoryUsers
                 /\ IF mongoConnected /\ LockedNow(user)
                    THEN gate.status = 423
                    ELSE /\ gate.status = 401
                         /\ gate.message = "Session expired due to inactivity"

C8_Witness ==
    /\ last.op = "profile" /\ last.status = 401
    /\ last.message = "Session expired due to inactivity"
    /\ \E c \in Clients : IdleSession(held[c])

(* The code a login request carries verifies against the secret *)
CodeMatches(code, secret) ==
    code # NoCode /\ code.secret = secret /\ code.drift <= TotpWindow

(* C9, as stated: for a user with twoFactorEnabled, login issues a token   *)
(* only when a code is supplied and verifies against the committed secret; *)
(* the correct password with no code yields requiresTwoFactor and no       *)
(* token, the correct password with a non-matching code yields 400 and no  *)
(* token.                                                                  *)
C9_TwoFactorLoginStated ==
    \A req \in LoginRequests :
        LET i == FoundByName(req.username)
            user == Authoritative[i]
            r == login(req)
            correct == user.password = hashPassword(req.password)
        IN (loginValidation(req) /\ i # 0 /\ user.twoFactorEnabled)
              => /\ r.resp.token # NoToken
                       => CodeMatches(req.twoFactorCode, user.twoFactorSecret)
                 /\ (correct /\ req.twoFactorCode = NoCode)
                       => /\ r.resp.status = 200
                          /\ r.resp.requiresTwoFactor
                          /\ r.resp.token = NoToken
                 /\ (/\ correct
                     /\ req.twoFactorCode # NoCode
                     /\ ~CodeMatches(req.twoFactorCode, user.twoFactorSecret))
                       => r.resp.status = 400 /\ r.resp.token = NoToken

(* C9, amended: the same, the two outcomes of a correct password being    *)
(* those of an account that is not currently locked; on a locked account   *)
(* the login is rejected as locked before the code is looked at, and no    *)
(* token is issued.                                                        *)
C9_TwoFactorLogin ==
    \A req \in LoginRequests :
        LET i == FoundByName(req.username)
            user == Authoritative[i]
            r == login(req)
            correct == user.password = hashPassword(req.password)
        IN (loginValidation(req) /\ i # 0 /\ user.twoFactorEnabled)
              => /\ r.resp.token # NoToken
                       => CodeMatches(req.twoFactorCode, user.twoFactorSecret)
                 /\ (correct /\ ~LockedNow(user) /\ req.twoFactorCode = NoCode)
                       => /\ r.resp.status = 200
                          /\ r.resp.requiresTwoFactor
                          /\ r.resp.token = NoToken
                 /\ (/\ correct /\ ~LockedNow(user)
                     /\ req.twoFactorCode # NoCode
                     /\ ~CodeMatches(req.twoFactorCode, user.twoFactorSecret))
                       => r.resp.status = 400 /\ r.resp.token = NoToken
                 /\ LockedNow(user)
                       => r.resp.message = MsgLocked /\ r.resp.token = NoToken

C9_Witness ==
    /\ last.op = "login" /\ last.status = 200 /\ last.token # NoToken
    /\ \E i \in DOMAIN dbUsers :
          /\ dbUsers[i]._id = last.user
          /\ dbUsers[i].twoFactorEnabled
          /\ dbUsers[i].twoFactorSecret \in Secrets

(* C10: confirmSetup with a code that matches the session's pending secret *)
(* answers 200, after which the user's record in the authoritative store   *)
(* holds that secret with twoFactorEnabled, and the pending slot is empty, *)
(* in database mode and in in-memory mode.                                 *)
C10_ConfirmSetupCommits ==
    \A c \in Clients, cast \in CastOutcomes, code \in Codes :
        LET gate == authenticateToken(held[c], cast)
            r == verifyTwoFactor(gate, session[c], code)
            i == FoundById(held[c].userId)
            after == IF mongoConnected THEN r.db ELSE r.mem
        IN (gate.admitted /\ session[c] # NoSecret /\ CodeMatches(code, session[c]))
              => /\ r.resp.status = 200
                 /\ after[i].twoFactorSecret = session[c]
                 /\ after[i].twoFactorEnabled
                 /\ r.pending = NoSecret

(* C11: disableTwoFactor behind the gate, with a non-empty password:       *)
(* the user's current password gets 200 and leaves the record of the       *)
(* authoritative store with no secret and twoFactorEnabled false; any      *)
(* other password gets 400 and leaves the record as it was.                *)
C11_DisableIffPassword ==
    \A c \in Clients, cast \in CastOutcomes, password \in Passwords :
        LET gate == authenticateToken(held[c], cast)
            r == disableTwoFactor(gate, password)
            i == FoundById(held[c].userId)
            before == IF mongoConnected THEN gate.db ELSE gate.mem
            after == IF mongoConnected THEN r.db ELSE r.mem
            correct == Authoritative[i].password = hashPassword(password)
        IN (gate.admitted /\ Len(password) > 0)
              => IF correct
                 THEN /\ r.resp.status = 200
                      /\ after[i].twoFactorSecret = NoSecret
                      /\ ~after[i].twoFactorEnabled
                 ELSE /\ r.resp.status = 400
                      /\ after = before

(* C12: a login with the correct password on an account that is not       *)
(* currently locked leaves the record with loginAttempts 0 and no          *)
(* lockUntil, whatever they were, in both modes and whether or not a       *)
(* two-factor code is still owed.                                          *)
C12_SuccessClearsLockout ==
    \A req \in LoginRequests :
        LET i == FoundByName(req.username)
            r == login(req)
            after == IF mongoConnected THEN r.db ELSE r.mem
        IN (/\ loginValidation(req) /\ i # 0
            /\ ~LockedNow(Authoritative[i])
            /\ Authoritative[i].password = hashPassword(req.password))
              => /\ after[i].loginAttempts = 0
                 /\ after[i].lockUntil = Null
                 /\ r.resp.status = 200

(* A successful login on a record that was locked earlier *)
C12_Witness ==
    /\ last.op = "login" /\ last.status = 200 /\ last.token # NoToken
    /\ \E i \in DOMAIN dbUsers :
          /\ dbUsers[i]._id = last.user
          /\ track[i].fifthAt # Null
          /\ track[i].fifthAt + LockDuration <= now
          /\ dbUsers[i].loginAttempts = 0
          /\ dbUsers[i].lockUntil = Null
          /\ dbUsers[i].lastActivity = now

(* C13: a failed login on a record whose lock has run out (lockUntil in    *)
(* the past) leaves the record unlocked with loginAttempts = 1.            *)
C13_ExpiredLockRestartsAtOne ==
    \A req \in LoginRequests :
        LET i == FoundByName(req.username)
            r == login(req)
            after == IF mongoConnected THEN r.db ELSE r.mem
        IN (/\ loginValidation(req) /\ i # 0
            /\ Authoritative[i].lockUntil # Null
            /\ Authoritative[i].lockUntil < now
            /\ Authoritative[i].password # hashPassword(req.password))
              => /\ after[i].lockUntil = Null
                 /\ after[i].loginAttempts = 1

Ind(b) == IF b THEN 1 ELSE 0

(* The number of the five criteria a password satisfies *)
CriteriaMet(p) ==
    Ind(Len(p) >= MinPasswordLength)
    + Ind(\E j \in DOMAIN p : p[j] \in LowerChars)
    + Ind(\E j \in DOMAIN p : p[j] \in UpperChars)
    + Ind(\E j \in DOMAIN p : p[j] \in DigitChars)
    + Ind(\E j \in DOMAIN p : p[j] \in SpecialChars)

(* C14: for every password, score is the number of criteria it satisfies, *)
(* isValid holds exactly when score = 5, strength is weak for score <= 2,  *)
(* medium for 3 or 4, strong for 5, and isValid holds exactly when         *)
(* strength is strong; the route answers with these values.                *)
C14_StrengthScore ==
    LET p == strength.password
        r == validatePasswordStrength(p)
        n == CriteriaMet(p)
    IN /\ r.score = n
       /\ r.isValid <=> (n = 5)
       /\ r.strength = (IF n <= 2 THEN "weak" ELSE IF n <= 4 THEN "medium"
                         ELSE "strong")
       /\ r.isValid <=> (r.strength = "strong")
       /\ strength.status = 200
             => /\ strength.data.score = n
                /\ strength.data.isValid = (n = 5)
                /\ strength.data.strength = r.strength

(* A long password that misses one class: four criteria, medium, invalid *)
C14_Witness ==
    /\ strength.status = 200
    /\ Len(strength.password) >= MinPasswordLength
    /\ strength.data.score = 4
    /\ strength.data.strength = "medium"
    /\ ~strength.data.isValid

(* Passwords that fail a criterion: eight characters with at most three   *)
(* of the four classes, and short ones with all four                       *)
WeakPasswords ==
    {stem \o Fill(MinPasswordLength - 3) : stem \in [1..3 -> {"a", "S", "1", "!"}]}
    \cup {<<"a", "S", "1", "!">>, PwShort, PwEmpty}

(* C15: a registration whose password fails at least one of the five     *)
(* criteria is answered 400 and creates no record, in both modes and      *)
(* whether or not the username or email is taken.                          *)
C15_WeakPasswordRejected ==
    \A username \in Usernames, password \in WeakPasswords :
        LET req == [username |-> username, email |-> "bob@x.com",
                    password |-> password]
            r == register(req)
        IN CriteriaMet(password) < 5
              => /\ r.resp.status = 400
                 /\ r.resp.token = NoToken
                 /\ r.db = dbUsers
                 /\ r.mem = inMemoryUsers
                 /\ r.nextId = nextUserId

C15_Witness ==
    /\ last.op = "register" /\ last.status = 400
    /\ last.message = MsgValidationFailed
    /\ inMemoryUsers = << >> /\ dbUsers = << >> /\ nextUserId = 1
    /\ CriteriaMet(PwShort) < 5
    /\ \A password \in WeakPasswords : CriteriaMet(password) < 5

(* C16: optionalAuth never answers the request itself and calls next()    *)
(* exactly once; it attaches an identity exactly when authenticateToken    *)
(* admits the same request in the same state, then with the same identity  *)
(* and the same lastActivity update; otherwise no identity is attached and *)
(* no record changes.                                                      *)
C16_OptionalAuthMirrorsGate ==
    \A token \in TokenUniverse, cast \in CastOutcomes :
        LET o == optionalAuth(token, cast)
            gate == authenticateToken(token, cast)
        IN /\ o.nextCalls = 1
           /\ ~o.rejected
           /\ o.attached <=> gate.admitted
           /\ o.attached
                 => o.user = gate.user /\ o.db = gate.db /\ o.mem = gate.mem
           /\ ~o.attached
                 => o.user = NoUser /\ o.db = dbUsers /\ o.mem = inMemoryUsers

(* /maps was served with no identity while the client's token, validly    *)
(* signed and unexpired, names a locked account                            *)
C16_Witness ==
    /\ last.op = "maps" /\ last.status = 200 /\ last.user = NoId
    /\ \E c \in Clients :
          /\ jwtVerify(held[c]).error = ""
          /\ authenticateToken(held[c], "null").status = 423
          /\ ~optionalAuth(held[c], "null").attached

(* C17: in in-memory mode a login with a wrong password for an existing   *)
(* record increments that record's loginAttempts, and the fifth one in a   *)
(* row sets a lock under which later logins are rejected as locked.        *)
C17_InMemoryFailuresCounted ==
    \A req \in LoginRequests :
        LET i == FoundByName(req.username)
            r == login(req)
        IN (/\ ~mongoConnected /\ loginValidation(req) /\ i # 0
            /\ inMemoryUsers[i].password # hashPassword(req.password))
              => /\ r.mem[i].loginAttempts = inMemoryUsers[i].loginAttempts + 1
                 /\ inMemoryUsers[i].loginAttempts + 1 >= LockThreshold
                       => r.mem[i].lockUntil > now

(* C18: in database mode a register or login request whose query fails in *)
(* the storage layer is answered 500 and writes nothing; a two-factor      *)
(* confirmation whose update fails is answered 500.                        *)
C18_StorageFailureIs500 ==
    /\ \A req \in RegisterRequests :
          LET r == registerOnStorageFailure(req)
          IN (mongoConnected /\ registerValidation(req))
                => /\ r.resp.status = 500
                   /\ r.db = dbUsers /\ r.mem = inMemoryUsers
    /\ \A req \in LoginRequests :
          LET r == loginOnStorageFailure(req)
          IN (mongoConnected /\ loginValidation(req))
                => /\ r.resp.status = 500
                   /\ r.db = dbUsers /\ r.mem = inMemoryUsers
    /\ \A c \in Clients, cast \in CastOutcomes, code \in Codes :
          LET gate == authenticateToken(held[c], cast)
              r == verifyTwoFactor(gate, session[c], code)
          IN (/\ gate.admitted /\ session[c] # NoSecret
              /\ CodeMatches(code, session[c])
              /\ findByIdAndUpdate(gate.db, gate.user._id, session[c], TRUE).error # "")
                => r.resp.status = 500

(* C19: under any interleaving of failed logins for one user, once five   *)
(* failed login requests in a row have completed the account is locked.    *)
C19_FiveFailuresLockConcurrently ==
    \A i \in DOMAIN dbUsers :
        track[i].streak >= LockThreshold
            => dbUsers[i].lockUntil # Null /\ dbUsers[i].lockUntil > now

(* C20: the in-memory list never holds two records with the same username *)
(* or two records with the same email.                                     *)
C20_InMemoryUnique ==
    \A i, j \in DOMAIN inMemoryUsers :
        i # j => /\ inMemoryUsers[i].username # inMemoryUsers[j].username
                 /\ inMemoryUsers[i].email # inMemoryUsers[j].email

(* C21: a registration that is about to write its record to the in-memory *)
(* list (it awaits hashPassword, line 156) made its duplicate check on     *)
(* the in-memory list; a record written to the database was checked        *)
(* against the database.                                                   *)
C21_SearchedStoreIsWrittenStore ==
    \A slot \in Slots :
        inflight[slot].phase = "hash" => inflight[slot].searched = "memory"

(* C22: a login against a record whose lock has not expired leaves its     *)
(* loginAttempts and its lockUntil as they were.                           *)
C22_LockedLoginChangesNothing ==
    \A req \in LoginRequests :
        LET i == FoundByName(req.username)
            r == login(req)
            after == IF mongoConnected THEN r.db ELSE r.mem
        IN (loginValidation(req) /\ i # 0 /\ LockedNow(Authoritative[i]))
              => /\ after[i].lockUntil = Authoritative[i].lockUntil
                 /\ after[i].loginAttempts = Authoritative[i].loginAttempts

(* C23: a request the gate rejects leaves both stores as they were; a      *)
(* request it admits changes nothing but the lastActivity of the token's   *)
(* user in the authoritative store, which becomes now.                     *)
C23_GateWritesOnlyLastActivity ==
    \A token \in TokenUniverse, cast \in CastOutcomes :
        LET gate == authenticateToken(token, cast)
            i == FoundById(token.userId)
            touched == [Authoritative EXCEPT ![i].lastActivity = now]
        IN IF gate.admitted
           THEN /\ i # 0
                /\ gate.db = (IF mongoConnected THEN touched ELSE dbUsers)
                /\ gate.mem = (IF mongoConnected THEN inMemoryUsers ELSE touched)
           ELSE gate.db = dbUsers /\ gate.mem = inMemoryUsers

(* An admitted request some time after the token was issued: lastActivity *)
(* moved to now on a record that carries failed attempts                   *)
C23_Witness ==
    /\ last.op = "profile" /\ last.status = 200
    /\ mongoConnected
    /\ \E c \in Clients : held[c].userId = last.user /\ held[c].iat < now
    /\ \E i \in DOMAIN dbUsers :
          /\ dbUsers[i]._id = last.user
          /\ dbUsers[i].lastActivity = now
          /\ dbUsers[i].loginAttempts > 0

(* The two-factor fields of the records of a store *)
TwoFactorFields(users) ==
    [i \in DOMAIN users |-> <<users[i].twoFactorSecret, users[i].twoFactorEnabled>>]

(* C24: beginSetup, a confirmSetup with no pending secret and a           *)
(* confirmSetup with a code that does not match the pending secret leave   *)
(* the stores as the gate left them, the two failing with 400 and the      *)
(* pending slot as it was; and no step changes the two-factor fields of an *)
(* existing record but a confirmSetup or a disable answered 200.           *)
C24_TwoFactorFieldsFrame ==
    /\ [](\A c \in Clients, cast \in CastOutcomes :
            LET gate == authenticateToken(held[c], cast)
            IN gate.admitted =>
                 /\ \A secret \in Secrets :
                       LET r == setupTwoFactor(gate, session[c], secret)
                       IN r.db = gate.db /\ r.mem = gate.mem
                 /\ \A code \in Codes :
                       LET r == verifyTwoFactor(gate, session[c], code)
                       IN (session[c] = NoSecret \/ ~CodeMatches(code, session[c]))
                             => /\ r.resp.status = 400
                                /\ r.db = gate.db /\ r.mem = gate.mem
                                /\ r.pending = session[c])
    /\ [][(\/ SubSeq(TwoFactorFields(dbUsers'), 1, Len(dbUsers))
                 # TwoFactorFields(dbUsers)
            \/ SubSeq(TwoFactorFields(inMemoryUsers'), 1, Len(inMemoryUsers))
                 # TwoFactorFields(inMemoryUsers))
              => last'.op \in {"verify", "disable"} /\ last'.status = 200]_vars

(* A confirmSetup was refused for its code while a secret is pending and  *)
(* the record has no two-factor secret                                     *)
C24_Witness ==
    /\ last.op = "verify" /\ last.status = 400
    /\ last.message = "Invalid verification code"
    /\ \E c \in Clients : session[c] # NoSecret
    /\ \E i \in DOMAIN dbUsers :
          /\ dbUsers[i]._id = last.user
          /\ dbUsers[i].twoFactorSecret = NoSecret
          /\ ~dbUsers[i].twoFactorEnabled

(* C25: a confirmSetup with a code, from an admitted caller, works on the *)
(* pending secret of its own session only: with none pending there it      *)
(* fails with the no-pending-setup error and changes nothing, whatever     *)
(* the other sessions hold; it succeeds only on a code of its own pending  *)
(* secret and commits that secret; it never leaves another secret pending. *)
C25_PendingSecretPerSession ==
    \A c \in Clients, cast \in CastOutcomes, code \in Codes \ {NoCode} :
        LET gate == authenticateToken(held[c], cast)
            r == verifyTwoFactor(gate, tempTwoFactorSecret(c), code)
            i == FoundById(held[c].userId)
        IN gate.admitted =>
             /\ session[c] = NoSecret
                   => /\ r.resp.status = 400
                      /\ r.resp.message =
                           "No setup session found. Please start the setup process again."
                      /\ r.db = gate.db /\ r.mem = gate.mem
             /\ r.resp.status = 200
                   => /\ session[c] # NoSecret
                      /\ CodeMatches(code, session[c])
                      /\ r.db[i].twoFactorSecret = session[c]
             /\ r.pending \in {session[c], NoSecret}

(* A confirmSetup was refused for want of a pending secret while another  *)
(* session holds one and both sessions carry a token                       *)
C25_Witness ==
    /\ last.op = "verify" /\ last.status = 400
    /\ last.message = "No setup session found. Please start the setup process again."
    /\ \E c, other \in Clients :
          /\ c # other
          /\ session[c] = NoSecret /\ session[other] # NoSecret
          /\ held[c] # NoToken /\ held[other] # NoToken
          /\ held[c].userId = last.user

(* C26: in either mode, a registration with an unused username and email  *)
(* and a password that validatePasswordStrength calls valid is answered    *)
(* 201, also when the password holds characters outside letters, digits    *)
(* and @$!%*?&.                                                            *)
C26_ModesAcceptSamePasswords ==
    \A req \in RegisterRequests :
        LET taken == \E i \in DOMAIN Authoritative :
                        \/ Authoritative[i].username = req.username
                        \/ Authoritative[i].email = req.email
        IN (~taken /\ validatePasswordStrength(req.password).isValid)
              => register(req).resp.status = 201

(* C27: a login that issues no token (wrong password, two-factor code      *)
(* required, invalid two-factor code) leaves the user's loginAttempts and  *)
(* lockUntil uncleared and the user's lastActivity as it was.              *)
C27_NoTokenNoReset ==
    \A req \in LoginRequests :
        LET i == FoundByName(req.username)
            r == login(req)
            after == IF mongoConnected THEN r.db ELSE r.mem
        IN (loginValidation(req) /\ i # 0 /\ r.resp.token = NoToken)
              => /\ after[i].loginAttempts >= Authoritative[i].loginAttempts
                 /\ Authoritative[i].lockUntil # Null => after[i].lockUntil # Null
                 /\ after[i].lastActivity = Authoritative[i].lastActivity

(* C28: in in-memory mode, across registrations, logins and restarts, a    *)
(* token the session gate accepts attaches the account, by username, that  *)
(* the token was issued to.                                                *)
C28_TokenAttachesIssuedAccount ==
    \A c \in Clients, cast \in CastOutcomes :
        LET gate == authenticateToken(held[c], cast)
        IN (held[c] # NoToken /\ gate.admitted)
              => gate.user.username = issuedTo[c]

(* C29: with the default token lifetime, a held token whose user's         *)
(* lastActivity is more than the idle window old has already expired, and  *)
(* the gate never answers "Session expired due to inactivity".             *)
C29_IdleTimeoutUnreachable ==
    /\ \A c \in Clients :
          LET i == FoundById(held[c].userId)
          IN (/\ held[c] # NoToken
              /\ i # 0
              /\ Authoritative[i].lastActivity # Null
              /\ Authoritative[i].lastActivity < now - IdleWindow)
                 => now >= held[c].exp
    /\ last.message # "Session expired due to inactivity"

(* The request bodies that pass the handlers' validation *)
WellFormedNodes == {body \in DrivenAddNode : trim(body.text) # ""}
WellFormedConnections == {body \in DrivenConnection : body.from # body.to}

(* The maps of the current store that have an owner other than userId *)
MapsOfOthers(userId) ==
    {i \in DOMAIN mapStore :
        /\ mapStore[i].user # NoId
        /\ mapStore[i].user # (IF mongoConnected THEN userId ELSE toString(userId))}

Refused(r) ==
    r.resp.status = 403 /\ r.db = dbMaps /\ r.mem = inMemoryMaps

(* C30: in either mode, each of updateMap, deleteMap, addNode, updateNode, *)
(* deleteNode, addConnection and deleteConnection, called by an            *)
(* authenticated user for a map that another user owns, answers 403 and    *)
(* leaves the maps as they were.                                           *)
C30_OnlyOwnerModifies ==
    \A c \in Clients, cast \in CastOutcomes :
        LET gate == authenticateToken(held[c], cast)
            userId == gate.user._id
        IN gate.admitted =>
             \A i \in MapsOfOthers(userId) :
                LET id == toString(mapStore[i]._id)
                IN /\ \A body \in DrivenUpdateMap : Refused(updateMap(userId, id, body))
                   /\ Refused(deleteMap(userId, id))
                   /\ \A body \in WellFormedNodes, nodeId \in NodeIds :
                         Refused(addNode(userId, id, body, nodeId))
                   /\ \A body \in DrivenUpdateNode, nodeId \in NodeIds :
                         Refused(updateNode(userId, id, nodeId, body))
                   /\ \A nodeId \in NodeIds : Refused(deleteNode(userId, id, nodeId))
                   /\ \A body \in WellFormedConnections :
                         /\ Refused(addConnection(userId, id, body))
                         /\ Refused(deleteConnection(userId, id, body))

====
